---- MODULE Spec2Model ----
(***************************************************************************)
(* The enshrined DEX of op-rbuilder: the transaction handler (DexHandler), *)
(* the flashblocks integration (execute_dex_transaction and its receipt,   *)
(* gas and log synthesis) and the per-block ExecutionInfo accumulator.     *)
(*                                                                         *)
(* Byte strings are sequences of numbers 0..255: an Address is 20 bytes, a *)
(* U256 / B256 word is 32 bytes big-endian, calldata is the 4 selector     *)
(* bytes followed by the ABI words.  The PoolManager of the enshrined-dex  *)
(* library is not part of the sources; it is modelled from the engine      *)
(* contract of the specification (section 4.3).                            *)
(***************************************************************************)
EXTENDS Integers, Sequences, FiniteSets, TLC

VARIABLES
    pm,       \* the PoolManager behind the handler's lock
    info,     \* the ExecutionInfo of the block being built
    last,     \* the latest execute_dex_transaction call
    calls,    \* every call so far: sender, transaction and the handler's result
    rw,       \* the RwLock around the PoolManager: its writer and its readers
    threads,  \* where each thread that shares the lock stands in its call
    started   \* number of calls and inspections begun by the threads

vars == <<pm, info, last, calls, rw, threads, started>>

\* Number of transactions offered to execute_dex_transaction in one block.
MaxTxs == 4

(***************************************************************************)
(* Bytes, words and addresses                                              *)
(***************************************************************************)
Zeros(n) == [i \in 1..n |-> 0]

\* Op applied to the value of e, with e evaluated once.
With(e, Op(_)) == CHOOSE y \in {Op(x) : x \in {e}} : TRUE

\* Big-endian value of a byte string (used only where the value is small).
BEVal(s) ==
    LET v[n \in 0..Len(s)] == IF n = 0 THEN 0 ELSE v[n - 1] * 256 + s[n]
    IN  v[Len(s)]

\* to_be_bytes of a number below 2^24, widened to n >= 3 bytes.
BEBytes(x, n) == Zeros(n - 3) \o <<(x \div 65536) % 256, (x \div 256) % 256, x % 256>>

\* U256::from(x)
U256From(x) == BEBytes(x, 32)

U256_ZERO == Zeros(32)

\* An address whose only nonzero byte is the last one (the tests' tokens and callers).
Addr(x) == Zeros(19) \o <<x>>

\* address!("4200000000000000000000000000000000000042")
DEX_PREDEPLOY_ADDRESS == [i \in 1..20 |-> IF i \in {1, 20} THEN 66 ELSE 0]

\* B256::left_padding_from(addr.as_slice())
left_padding_from(bytes) == Zeros(32 - Len(bytes)) \o bytes

\* keccak256 of an event signature: an injective hash, kept symbolic.
keccak256(sig) == [keccak |-> sig]

(***************************************************************************)
(* selectors (predeploy.rs)                                                *)
(***************************************************************************)
CREATE_PAIR == <<111, 54, 198, 40>>
PLACE_LIMIT_ORDER == <<158, 140, 192, 75>>
CANCEL_ORDER == <<160, 113, 150, 241>>
SWAP == <<18, 138, 203, 8>>
GET_QUOTE == <<153, 143, 148, 248>>
GET_ORDERBOOK_DEPTH == <<77, 79, 176, 176>>
GET_PAIR_STATS == <<247, 136, 138, 236>>
GET_USER_ORDERS == <<11, 134, 92, 82>>
GET_ORDER == <<208, 158, 242, 65>>

(***************************************************************************)
(* ABI encoding and decoding of static tuples (alloy_sol_types::SolValue)  *)
(***************************************************************************)
\* One 32-byte word per field.
AbiAddress(a) == left_padding_from(a)
AbiBool(b) == Zeros(31) \o <<IF b THEN 1 ELSE 0>>

Concat(ss) ==
    LET c[n \in 0..Len(ss)] == IF n = 0 THEN <<>> ELSE c[n - 1] \o ss[n]
    IN  c[Len(ss)]

\* (f1, ..., fn).abi_encode() for already encoded fields
abi_encode(words) == Concat(words)

\* The i-th word of the data.
Word(data, i) == SubSeq(data, 32 * (i - 1) + 1, 32 * i)

\* abi_decode of a tuple of n static fields: an error when the data is too
\* short to hold the n words, else the words.
abi_decode(data, n) ==
    IF Len(data) < 32 * n
    THEN [ok |-> FALSE]
    ELSE [ok |-> TRUE, words |-> [i \in 1..n |-> Word(data, i)]]

\* Detokenizing a word as an address (its low 20 bytes) and as a bool.
WordAddress(w) == SubSeq(w, 13, 32)
WordBool(w) == w # U256_ZERO

\* Faulty variant of the encoding: the two digits of a byte are exchanged.
hex_encode_swapped(bytes) ==
    [i \in 1..(2 * Len(bytes)) |->
        IF i % 2 = 1 THEN <<"0", "1", "2", "3", "4", "5", "6", "7", "8", "9",
                            "a", "b", "c", "d", "e", "f">>[(bytes[(i + 1) \div 2] % 16) + 1]
        ELSE <<"0", "1", "2", "3", "4", "5", "6", "7", "8", "9",
               "a", "b", "c", "d", "e", "f">>[(bytes[i \div 2] \div 16) + 1]]

\* hex::encode
HexDigits == <<"0", "1", "2", "3", "4", "5", "6", "7", "8", "9", "a", "b", "c", "d", "e", "f">>
hex_encode(bytes) ==
    [i \in 1..(2 * Len(bytes)) |->
        IF i % 2 = 1 THEN HexDigits[(bytes[(i + 1) \div 2] \div 16) + 1]
        ELSE HexDigits[(bytes[i \div 2] % 16) + 1]]

\* Faulty variant of the conversion: the low 128 bits are kept (as u128).
try_into_u128_truncating(w) == [ok |-> TRUE, val |-> BEVal(SubSeq(w, 17, 32))]

\* u128::try_from(U256): fails when one of the upper 16 bytes is set.
try_into_u128(w) ==
    IF SubSeq(w, 1, 16) # Zeros(16)
    THEN [ok |-> FALSE]
    ELSE [ok |-> TRUE, val |-> BEVal(SubSeq(w, 17, 32))]

(***************************************************************************)
(* The exchange engine (dex::PoolManager), modelled from its contract:     *)
(* a registry of unordered pairs, the resting limit orders in insertion    *)
(* order, and the next order identifier.  Amounts and prices are numbers   *)
(* inside the engine.                                                      *)
(***************************************************************************)
\* PoolManager::new()
PoolManager_new == [pairs |-> {}, orders |-> <<>>, next_order_id |-> 1]

\* The commutative pair identifier: id(a, b) = id(b, a).
PairId(a, b) == {a, b}

Min(a, b) == IF a <= b THEN a ELSE b
CeilDiv(a, b) == (a + b - 1) \div b
RemoveAt(s, i) == SubSeq(s, 1, i - 1) \o SubSeq(s, i + 1, Len(s))

\* An order with its remaining amount reduced by q; it leaves the book at 0.
FillAt(orders, i, q) ==
    IF orders[i].remaining = q THEN RemoveAt(orders, i)
    ELSE [orders EXCEPT ![i].remaining = @ - q]

\* createPair: registers the unordered pair once.
pm_create_pair(p, token0, token1) ==
    IF PairId(token0, token1) \in p.pairs
    THEN [ok |-> FALSE, err |-> "PairAlreadyExists", pm |-> p]
    ELSE [ok |-> TRUE, pair |-> PairId(token0, token1),
          pm |-> [p EXCEPT !.pairs = @ \cup {PairId(token0, token1)}]]

\* A resting order o crosses an incoming order of the given side and price.
Crosses(o, base, quote, side, num, den) ==
    /\ o.base = base /\ o.quote = quote
    /\ IF side = "Buy"
       THEN o.side = "Sell" /\ o.num * den <= num * o.den
       ELSE o.side = "Buy" /\ o.num * den >= num * o.den

\* Price/time priority among crossing orders: best price for the incoming
\* side first, the earliest inserted at equal price.
BestCrossing(orders, cand, side) ==
    CHOOSE i \in cand : \A j \in cand \ {i} :
        LET a == orders[i].num * orders[j].den
            b == orders[j].num * orders[i].den
        IN  IF side = "Buy" THEN a < b \/ (a = b /\ i < j)
            ELSE a > b \/ (a = b /\ i < j)

RECURSIVE MatchLimit(_, _, _, _, _, _, _)
MatchLimit(orders, base, quote, side, num, den, rem) ==
    LET cand == {i \in 1..Len(orders) : Crosses(orders[i], base, quote, side, num, den)}
        Take(i) == MatchLimit(FillAt(orders, i, Min(rem, orders[i].remaining)),
                              base, quote, side, num, den,
                              rem - Min(rem, orders[i].remaining))
    IN  IF rem = 0 \/ cand = {} THEN [orders |-> orders, rem |-> rem]
        ELSE With(BestCrossing(orders, cand, side), Take)

\* placeLimitOrder: resolve the pair, match what crosses, rest the remainder,
\* issue the next identifier.
pm_place_limit_order(p, token_in, token_out, trader, side, price, amount) ==
    IF PairId(token_in, token_out) \notin p.pairs
    THEN [ok |-> FALSE, err |-> "PairNotFound", pm |-> p]
    ELSE LET amt == BEVal(amount)
             Matched(m) ==
                LET o == [id |-> p.next_order_id, trader |-> trader, base |-> token_in,
                          quote |-> token_out, side |-> side, num |-> price.num,
                          den |-> price.den, remaining |-> m.rem]
                IN  [ok |-> TRUE, order_id |-> p.next_order_id, filled |-> amt - m.rem,
                     pm |-> [p EXCEPT !.orders = IF m.rem > 0 THEN Append(m.orders, o)
                                                 ELSE m.orders,
                                      !.next_order_id = @ + 1]]
         IN  With(MatchLimit(p.orders, token_in, token_out, side, price.num, price.den, amt),
                  Matched)

\* A resting order that offers token y for token x.
IsMaker(o, x, y) ==
    \/ o.side = "Sell" /\ o.base = y /\ o.quote = x
    \/ o.side = "Buy" /\ o.base = x /\ o.quote = y

\* What a taker holding a of x gets from order o, and what it gives.
TakerGet(o, a) ==
    IF o.side = "Sell" THEN Min(o.remaining, (a * o.den) \div o.num)
    ELSE (Min(o.remaining, a) * o.num) \div o.den
TakerGive(o, a) ==
    IF o.side = "Sell" THEN Min(a, CeilDiv(TakerGet(o, a) * o.num, o.den))
    ELSE Min(o.remaining, a)
\* The amount by which the order's remaining (base) amount goes down.
MakerFill(o, a) == IF o.side = "Sell" THEN TakerGet(o, a) ELSE TakerGive(o, a)

\* The taker's rate (y per x) of order o, as a fraction.
RateNum(o) == IF o.side = "Sell" THEN o.den ELSE o.num
RateDen(o) == IF o.side = "Sell" THEN o.num ELSE o.den

BestMaker(orders, cand) ==
    CHOOSE i \in cand : \A j \in cand \ {i} :
        LET a == RateNum(orders[i]) * RateDen(orders[j])
            b == RateNum(orders[j]) * RateDen(orders[i])
        IN  a > b \/ (a = b /\ i < j)

\* One hop x -> y: consume the resting liquidity, best rate first, until the
\* input is exhausted or nothing more can be filled.
RECURSIVE SwapHop(_, _, _, _, _)
SwapHop(orders, x, y, a, out) ==
    LET cand == {i \in 1..Len(orders) :
                    IsMaker(orders[i], x, y) /\ MakerFill(orders[i], a) > 0}
        Take(i) == SwapHop(FillAt(orders, i, MakerFill(orders[i], a)), x, y,
                           a - TakerGive(orders[i], a), out + TakerGet(orders[i], a))
    IN  IF a = 0 \/ cand = {} THEN [orders |-> orders, out |-> out]
        ELSE With(BestMaker(orders, cand), Take)

\* A path of tokens, hop after hop; the output of a hop is the input of the next.
RECURSIVE RunPath(_, _, _)
RunPath(orders, path, a) ==
    IF Len(path) < 2 THEN [orders |-> orders, out |-> a]
    ELSE LET Rest(h) == RunPath(h.orders, Tail(path), h.out)
         IN  With(SwapHop(orders, path[1], path[2], a, 0), Rest)

\* The tokens the registry knows.
KnownTokens(p) == UNION p.pairs

\* Router: the direct pair and the paths through one intermediate token.
Paths(p, token_in, token_out) ==
    (IF PairId(token_in, token_out) \in p.pairs THEN {<<token_in, token_out>>} ELSE {})
    \cup {<<token_in, m, token_out>> : m \in
            {t \in KnownTokens(p) \ {token_in, token_out} :
                PairId(token_in, t) \in p.pairs /\ PairId(t, token_out) \in p.pairs}}

\* The single best path: most output, then fewest hops, then the smallest
\* intermediate token.
BestPath(p, paths, a) ==
    CHOOSE r \in paths : \A s \in paths \ {r} :
        LET ro == RunPath(p.orders, r, a).out
            so == RunPath(p.orders, s, a).out
        IN  \/ ro > so
            \/ ro = so /\ Len(r) < Len(s)
            \/ ro = so /\ Len(r) = Len(s) /\ BEVal(r[2]) < BEVal(s[2])

\* The pair identifiers of a path's hops.
RouteOf(path) == [i \in 1..(Len(path) - 1) |-> PairId(path[i], path[i + 1])]

\* getQuote: the simulation alone.
pm_get_quote(p, token_in, token_out, amount_in) ==
    LET paths == Paths(p, token_in, token_out)
    IN  IF paths = {} THEN [ok |-> FALSE, err |-> "NoRouteFound"]
        ELSE LET Quoted(r) ==
                    [ok |-> TRUE,
                     amount_out |-> U256From(RunPath(p.orders, r, BEVal(amount_in)).out),
                     route |-> RouteOf(r)]
             IN  With(BestPath(p, paths, BEVal(amount_in)), Quoted)

\* swap: fill along the best path; nothing survives a failed call.
pm_execute_swap(p, caller, token_in, token_out, amount_in, min_amount_out) ==
    LET paths == Paths(p, token_in, token_out)
    IN  IF paths = {} THEN [ok |-> FALSE, err |-> "NoRouteFound", pm |-> p]
        ELSE LET Filled(run) ==
                    IF run.out < BEVal(min_amount_out)
                    THEN [ok |-> FALSE, err |-> "SlippageExceeded", pm |-> p]
                    ELSE [ok |-> TRUE, amount_out |-> U256From(run.out),
                          pm |-> [p EXCEPT !.orders = run.orders]]
             IN  With(RunPath(p.orders, BestPath(p, paths, BEVal(amount_in)),
                              BEVal(amount_in)), Filled)

(***************************************************************************)
(* DexResult and DexError (types.rs)                                       *)
(***************************************************************************)
Err(e) == [ok |-> FALSE, err |-> e]
InvalidCalldata(msg) == [ok |-> FALSE, err |-> "InvalidCalldata", msg |-> msg]

\* Faulty variant of the conversion: the two pair errors are confused.
DexErrorFrom_confused(err) ==
    CASE err = "PairAlreadyExists" -> "PairDoesNotExist"
      [] err = "PairNotFound" -> "PairAlreadyExists"
      [] err = "NoRouteFound" -> "NoRouteFound"
      [] err = "SlippageExceeded" -> "SlippageExceeded"
      [] err = "InsufficientLiquidity" -> "InsufficientBalance"
      [] err = "InvalidAmount" -> "InvalidAmount"
      [] err = "InvalidPair" -> "InvalidTokenAddress"
      [] err = "OrderError(OrderNotFound)" -> "OrderNotFound"
      [] err = "OrderError(InsufficientLiquidity)" -> "InsufficientBalance"
      [] err = "OrderError(InvalidPrice)" -> "InvalidPrice"
      [] err = "OrderError(BelowMinimumSize)" -> "InvalidAmount"

\* Faulty variant of the conversion: slippage is reported as missing liquidity.
DexErrorFrom_no_slippage(err) ==
    CASE err = "PairAlreadyExists" -> "PairAlreadyExists"
      [] err = "PairNotFound" -> "PairDoesNotExist"
      [] err = "NoRouteFound" -> "NoRouteFound"
      [] err = "SlippageExceeded" -> "InsufficientBalance"
      [] err = "InsufficientLiquidity" -> "InsufficientBalance"
      [] err = "InvalidAmount" -> "InvalidAmount"
      [] err = "InvalidPair" -> "InvalidTokenAddress"
      [] err = "OrderError(OrderNotFound)" -> "OrderNotFound"
      [] err = "OrderError(InsufficientLiquidity)" -> "InsufficientBalance"
      [] err = "OrderError(InvalidPrice)" -> "InvalidPrice"
      [] err = "OrderError(BelowMinimumSize)" -> "InvalidAmount"

\* Faulty variant of the conversion: a missing pair is reported as a missing route.
DexErrorFrom_no_route(err) ==
    CASE err = "PairAlreadyExists" -> "PairAlreadyExists"
      [] err = "PairNotFound" -> "NoRouteFound"
      [] err = "NoRouteFound" -> "NoRouteFound"
      [] err = "SlippageExceeded" -> "SlippageExceeded"
      [] err = "InsufficientLiquidity" -> "InsufficientBalance"
      [] err = "InvalidAmount" -> "InvalidAmount"
      [] err = "InvalidPair" -> "InvalidTokenAddress"
      [] err = "OrderError(OrderNotFound)" -> "OrderNotFound"
      [] err = "OrderError(InsufficientLiquidity)" -> "InsufficientBalance"
      [] err = "OrderError(InvalidPrice)" -> "InvalidPrice"
      [] err = "OrderError(BelowMinimumSize)" -> "InvalidAmount"

\* impl From<dex::PoolError> for DexError
DexErrorFrom(err) ==
    CASE err = "PairAlreadyExists" -> "PairAlreadyExists"
      [] err = "PairNotFound" -> "PairDoesNotExist"
      [] err = "NoRouteFound" -> "NoRouteFound"
      [] err = "SlippageExceeded" -> "SlippageExceeded"
      [] err = "InsufficientLiquidity" -> "InsufficientBalance"
      [] err = "InvalidAmount" -> "InvalidAmount"
      [] err = "InvalidPair" -> "InvalidTokenAddress"
      [] err = "OrderError(OrderNotFound)" -> "OrderNotFound"
      [] err = "OrderError(InsufficientLiquidity)" -> "InsufficientBalance"
      [] err = "OrderError(InvalidPrice)" -> "InvalidPrice"
      [] err = "OrderError(BelowMinimumSize)" -> "InvalidAmount"

\* B256::from_slice(&pair_id.0): the 32 bytes of the identifier, kept symbolic.
PairIdBytes(pair) == [pair_id |-> pair]

\* Faulty variant of the identifier's encoding: only the low byte is kept.
OrderIdBytes_low_byte(order_id) == Zeros(31) \o <<order_id % 256>>

\* OrderId (u64) to B256: bytes[24..32] = order_id.0.to_be_bytes()
OrderIdBytes(order_id) == Zeros(24) \o BEBytes(order_id, 8)

(***************************************************************************)
(* DexHandler (handler.rs).  Every handler returns its result, the engine  *)
(* after the call and the access it took to the engine (none, read or      *)
(* write).                                                                 *)
(***************************************************************************)
\* Faulty variant of handle_create_pair: the write guard is taken before the
\* arguments are decoded.
handle_create_pair_locks_first(p, caller, data) ==
    LET d == abi_decode(data, 2)
    IN  IF ~d.ok
        THEN [res |-> InvalidCalldata(<<"failed to decode createPair">>),
              pm |-> p, lock |-> "write"]
        ELSE LET token0 == WordAddress(d.words[1])
                 token1 == WordAddress(d.words[2])
                 Returned(r) ==
                    IF ~r.ok
                    THEN [res |-> Err(DexErrorFrom(r.err)), pm |-> r.pm, lock |-> "write"]
                    ELSE [res |-> [ok |-> TRUE, kind |-> "PairCreated", token0 |-> token0,
                                   token1 |-> token1, pair_id |-> PairIdBytes(r.pair)],
                          pm |-> r.pm, lock |-> "write"]
             IN  With(pm_create_pair(p, token0, token1), Returned)

\* handle_create_pair
handle_create_pair(p, caller, data) ==
    LET d == abi_decode(data, 2)
    IN  IF ~d.ok
        THEN [res |-> InvalidCalldata(<<"failed to decode createPair">>),
              pm |-> p, lock |-> "none"]
        ELSE LET token0 == WordAddress(d.words[1])
                 token1 == WordAddress(d.words[2])
                 Returned(r) ==
                    IF ~r.ok
                    THEN [res |-> Err(DexErrorFrom(r.err)), pm |-> r.pm, lock |-> "write"]
                    ELSE [res |-> [ok |-> TRUE, kind |-> "PairCreated", token0 |-> token0,
                                   token1 |-> token1, pair_id |-> PairIdBytes(r.pair)],
                          pm |-> r.pm, lock |-> "write"]
             IN  With(pm_create_pair(p, token0, token1), Returned)

\* Faulty variant of the checks: the price is looked at before the amount.
validate_limit_order_price_first(amount, price_num, price_denom) ==
    IF price_num = U256_ZERO \/ price_denom = U256_ZERO THEN "InvalidPrice"
    ELSE IF amount = U256_ZERO THEN "InvalidAmount"
    ELSE IF ~try_into_u128(price_num).ok THEN "InvalidPrice"
    ELSE IF ~try_into_u128(price_denom).ok THEN "InvalidPrice"
    ELSE "Ok"

\* Faulty variant of the checks: only the numerator is compared with zero.
validate_limit_order_num_only(amount, price_num, price_denom) ==
    IF amount = U256_ZERO THEN "InvalidAmount"
    ELSE IF price_num = U256_ZERO THEN "InvalidPrice"
    ELSE IF ~try_into_u128(price_num).ok THEN "InvalidPrice"
    ELSE IF ~try_into_u128(price_denom).ok THEN "InvalidPrice"
    ELSE "Ok"

\* The checks of handle_place_limit_order between decoding and the engine
\* call, in the order of the code: amount, price components, u128 width.
validate_limit_order(amount, price_num, price_denom) ==
    IF amount = U256_ZERO THEN "InvalidAmount"
    ELSE IF price_num = U256_ZERO \/ price_denom = U256_ZERO THEN "InvalidPrice"
    ELSE IF ~try_into_u128(price_num).ok THEN "InvalidPrice"
    ELSE IF ~try_into_u128(price_denom).ok THEN "InvalidPrice"
    ELSE "Ok"

\* handle_place_limit_order
handle_place_limit_order(p, caller, data, value) ==
    LET d == abi_decode(data, 6)
    IN  IF ~d.ok
        THEN [res |-> InvalidCalldata(<<"failed to decode placeLimitOrder">>),
              pm |-> p, lock |-> "none"]
        ELSE
        LET token_in == WordAddress(d.words[1])
            token_out == WordAddress(d.words[2])
            is_buy == WordBool(d.words[3])
            amount == d.words[4]
            price_num == d.words[5]
            price_denom == d.words[6]
            checked == validate_limit_order(amount, price_num, price_denom)
        IN  IF checked # "Ok"
            THEN [res |-> Err(checked), pm |-> p, lock |-> "none"]
            ELSE
            LET price == [num |-> try_into_u128(price_num).val,
                          den |-> try_into_u128(price_denom).val]
                side == IF is_buy THEN "Buy" ELSE "Sell"
                Returned(r) ==
                    IF ~r.ok
                    THEN [res |-> Err(DexErrorFrom(r.err)), pm |-> r.pm, lock |-> "write"]
                    ELSE [res |-> [ok |-> TRUE, kind |-> "OrderPlaced",
                                   order_id |-> OrderIdBytes(r.order_id), trader |-> caller,
                                   token_in |-> token_in, token_out |-> token_out,
                                   amount |-> amount],
                          pm |-> r.pm, lock |-> "write"]
            IN  With(pm_place_limit_order(p, token_in, token_out, caller, side, price, amount),
                     Returned)

\* handle_cancel_order: decodes the identifier and reports success; the
\* engine is not called.
handle_cancel_order(p, caller, data) ==
    LET d == abi_decode(data, 1)
    IN  IF ~d.ok
        THEN [res |-> InvalidCalldata(<<"failed to decode cancelOrder">>),
              pm |-> p, lock |-> "none"]
        ELSE [res |-> [ok |-> TRUE, kind |-> "OrderCancelled", order_id |-> d.words[1]],
              pm |-> p, lock |-> "none"]

\* Faulty variant of the check: every amount is let through.
validate_swap_none(amount_in) == "Ok"

\* The check of handle_swap between decoding and the engine call.
validate_swap(amount_in) ==
    IF amount_in = U256_ZERO THEN "InvalidAmount" ELSE "Ok"

\* Faulty variant of the swap: the engine is asked for any output and the
\* handler compares the output with min_amount_out afterwards, so the fills
\* of a refused swap stay in the book.
handle_swap_checks_after(p, caller, data, value) ==
    LET d == abi_decode(data, 4)
    IN  IF ~d.ok
        THEN [res |-> InvalidCalldata(<<"failed to decode swap">>), pm |-> p, lock |-> "none"]
        ELSE
        LET token_in == WordAddress(d.words[1])
            token_out == WordAddress(d.words[2])
            amount_in == d.words[3]
            min_amount_out == d.words[4]
        IN  IF validate_swap(amount_in) # "Ok"
            THEN [res |-> Err(validate_swap(amount_in)), pm |-> p, lock |-> "none"]
            ELSE
            LET Returned(r) ==
                    IF ~r.ok
                    THEN [res |-> Err(DexErrorFrom(r.err)), pm |-> r.pm, lock |-> "write"]
                    ELSE IF BEVal(r.amount_out) < BEVal(min_amount_out)
                    THEN [res |-> Err("SlippageExceeded"), pm |-> r.pm, lock |-> "write"]
                    ELSE [res |-> [ok |-> TRUE, kind |-> "SwapExecuted", trader |-> caller,
                                   token_in |-> token_in, token_out |-> token_out,
                                   amount_in |-> amount_in, amount_out |-> r.amount_out],
                          pm |-> r.pm, lock |-> "write"]
            IN  With(pm_execute_swap(p, caller, token_in, token_out, amount_in, U256_ZERO),
                     Returned)

\* Faulty variant of the swap: ETH sent with the call is taken as the amount
\* to swap.
handle_swap_spends_value(p, caller, data, value) ==
    LET d == abi_decode(data, 4)
    IN  IF ~d.ok
        THEN [res |-> InvalidCalldata(<<"failed to decode swap">>), pm |-> p, lock |-> "none"]
        ELSE
        LET token_in == WordAddress(d.words[1])
            token_out == WordAddress(d.words[2])
            amount_in == IF value # U256_ZERO THEN value ELSE d.words[3]
            min_amount_out == d.words[4]
        IN  IF validate_swap(amount_in) # "Ok"
            THEN [res |-> Err(validate_swap(amount_in)), pm |-> p, lock |-> "none"]
            ELSE
            LET Returned(r) ==
                    IF ~r.ok
                    THEN [res |-> Err(DexErrorFrom(r.err)), pm |-> r.pm, lock |-> "write"]
                    ELSE [res |-> [ok |-> TRUE, kind |-> "SwapExecuted", trader |-> caller,
                                   token_in |-> token_in, token_out |-> token_out,
                                   amount_in |-> amount_in, amount_out |-> r.amount_out],
                          pm |-> r.pm, lock |-> "write"]
            IN  With(pm_execute_swap(p, caller, token_in, token_out, amount_in, min_amount_out),
                     Returned)

\* handle_swap
handle_swap(p, caller, data, value) ==
    LET d == abi_decode(data, 4)
    IN  IF ~d.ok
        THEN [res |-> InvalidCalldata(<<"failed to decode swap">>), pm |-> p, lock |-> "none"]
        ELSE
        LET token_in == WordAddress(d.words[1])
            token_out == WordAddress(d.words[2])
            amount_in == d.words[3]
            min_amount_out == d.words[4]
        IN  IF validate_swap(amount_in) # "Ok"
            THEN [res |-> Err(validate_swap(amount_in)), pm |-> p, lock |-> "none"]
            ELSE
            LET Returned(r) ==
                    IF ~r.ok
                    THEN [res |-> Err(DexErrorFrom(r.err)), pm |-> r.pm, lock |-> "write"]
                    ELSE [res |-> [ok |-> TRUE, kind |-> "SwapExecuted", trader |-> caller,
                                   token_in |-> token_in, token_out |-> token_out,
                                   amount_in |-> amount_in, amount_out |-> r.amount_out],
                          pm |-> r.pm, lock |-> "write"]
            IN  With(pm_execute_swap(p, caller, token_in, token_out, amount_in, min_amount_out),
                     Returned)

\* Faulty variant of the quote: the estimate is obtained by running the swap
\* under the write lock.
handle_get_quote_by_swap(p, data) ==
    LET d == abi_decode(data, 3)
    IN  IF ~d.ok
        THEN [res |-> InvalidCalldata(<<"failed to decode getQuote">>),
              pm |-> p, lock |-> "none"]
        ELSE
        LET token_in == WordAddress(d.words[1])
            token_out == WordAddress(d.words[2])
            amount_in == d.words[3]
            Returned(r) ==
                IF ~r.ok
                THEN [res |-> Err(DexErrorFrom(r.err)), pm |-> p, lock |-> "write"]
                ELSE [res |-> [ok |-> TRUE, kind |-> "Quote", amount_out |-> r.amount_out,
                               route |-> <<>>],
                      pm |-> r.pm, lock |-> "write"]
        IN  With(pm_execute_swap(p, Zeros(20), token_in, token_out, amount_in, U256_ZERO),
                 Returned)

\* handle_get_quote
handle_get_quote(p, data) ==
    LET d == abi_decode(data, 3)
    IN  IF ~d.ok
        THEN [res |-> InvalidCalldata(<<"failed to decode getQuote">>),
              pm |-> p, lock |-> "none"]
        ELSE
        LET token_in == WordAddress(d.words[1])
            token_out == WordAddress(d.words[2])
            amount_in == d.words[3]
            Returned(r) ==
                IF ~r.ok
                THEN [res |-> Err(DexErrorFrom(r.err)), pm |-> p, lock |-> "read"]
                ELSE [res |-> [ok |-> TRUE, kind |-> "Quote", amount_out |-> r.amount_out,
                               route |-> [i \in 1..Len(r.route) |-> PairIdBytes(r.route[i])]],
                      pm |-> p, lock |-> "read"]
        IN  With(pm_get_quote(p, token_in, token_out, amount_in), Returned)

\* Faulty variant of the dispatch: getOrder(bytes32) has an arm of its own,
\* served like cancelOrder(bytes32).
handle_transaction_serves_get_order(p, caller, calldata, value) ==
    IF Len(calldata) < 4
    THEN [res |-> InvalidCalldata(<<"calldata too short for function selector">>),
          pm |-> p, lock |-> "none"]
    ELSE
    LET selector == SubSeq(calldata, 1, 4)
        data == SubSeq(calldata, 5, Len(calldata))
    IN  CASE selector = CREATE_PAIR -> handle_create_pair(p, caller, data)
          [] selector = PLACE_LIMIT_ORDER -> handle_place_limit_order(p, caller, data, value)
          [] selector = CANCEL_ORDER -> handle_cancel_order(p, caller, data)
          [] selector = SWAP -> handle_swap(p, caller, data, value)
          [] selector = GET_QUOTE -> handle_get_quote(p, data)
          [] selector = GET_ORDER -> handle_cancel_order(p, caller, data)
          [] OTHER -> [res |-> InvalidCalldata(<<"unknown function selector: 0x">>
                                               \o hex_encode(selector)),
                       pm |-> p, lock |-> "none"]

\* handle_transaction
handle_transaction(p, caller, calldata, value) ==
    IF Len(calldata) < 4
    THEN [res |-> InvalidCalldata(<<"calldata too short for function selector">>),
          pm |-> p, lock |-> "none"]
    ELSE
    LET selector == SubSeq(calldata, 1, 4)
        data == SubSeq(calldata, 5, Len(calldata))
    IN  CASE selector = CREATE_PAIR -> handle_create_pair(p, caller, data)
          [] selector = PLACE_LIMIT_ORDER -> handle_place_limit_order(p, caller, data, value)
          [] selector = CANCEL_ORDER -> handle_cancel_order(p, caller, data)
          [] selector = SWAP -> handle_swap(p, caller, data, value)
          [] selector = GET_QUOTE -> handle_get_quote(p, data)
          [] OTHER -> [res |-> InvalidCalldata(<<"unknown function selector: 0x">>
                                               \o hex_encode(selector)),
                       pm |-> p, lock |-> "none"]

(***************************************************************************)
(* Flashblocks integration (dex_integration.rs)                            *)
(***************************************************************************)
\* tx.to() of an OpTxEnvelope: Some(address), or None for a contract creation.
Some(a) == [some |-> TRUE, addr |-> a]
None == [some |-> FALSE]

\* Faulty variant of is_dex_transaction: a contract creation counts as reserved.
is_dex_transaction_creation(tx) ==
    IF tx.to.some THEN tx.to.addr = DEX_PREDEPLOY_ADDRESS ELSE TRUE

\* is_dex_transaction
is_dex_transaction(tx) ==
    IF tx.to.some THEN tx.to.addr = DEX_PREDEPLOY_ADDRESS ELSE FALSE

\* Faulty variant of the gas table: an order is charged like a pair.
estimate_dex_gas_flat(result) ==
    CASE result.kind = "PairCreated" -> 100000
      [] result.kind = "OrderPlaced" -> 100000
      [] result.kind = "OrderCancelled" -> 50000
      [] result.kind = "SwapExecuted" -> 200000
      [] result.kind = "Quote" -> 0

\* estimate_dex_gas
estimate_dex_gas(result) ==
    CASE result.kind = "PairCreated" -> 100000
      [] result.kind = "OrderPlaced" -> 150000
      [] result.kind = "OrderCancelled" -> 50000
      [] result.kind = "SwapExecuted" -> 200000
      [] result.kind = "Quote" -> 0

Log(topics, data) == [address |-> DEX_PREDEPLOY_ADDRESS, topics |-> topics, data |-> data]

\* Faulty variant of create_dex_logs: a quote is announced by an event too.
create_dex_logs_quote_event(result) ==
    CASE result.kind = "PairCreated" ->
            <<Log(<<keccak256("PairCreated(address,address,bytes32)"),
                    left_padding_from(result.token0),
                    left_padding_from(result.token1),
                    result.pair_id>>, <<>>)>>
      [] result.kind = "OrderPlaced" ->
            <<Log(<<keccak256("LimitOrderPlaced(bytes32,address,address,address,bool,uint256,uint256,uint256)"),
                    result.order_id,
                    left_padding_from(result.trader),
                    left_padding_from(result.token_in)>>,
                  abi_encode(<<result.amount>>))>>
      [] result.kind = "OrderCancelled" ->
            <<Log(<<keccak256("OrderCancelled(bytes32,address)"), result.order_id>>, <<>>)>>
      [] result.kind = "SwapExecuted" ->
            <<Log(<<keccak256("Swap(address,address,address,uint256,uint256,bytes32[])"),
                    left_padding_from(result.trader),
                    left_padding_from(result.token_in),
                    left_padding_from(result.token_out)>>,
                  abi_encode(<<result.amount_in, result.amount_out>>))>>
      [] result.kind = "Quote" ->
            <<Log(<<keccak256("Quote(uint256,bytes32[])")>>, abi_encode(<<result.amount_out>>))>>

\* create_dex_logs
create_dex_logs(result) ==
    CASE result.kind = "PairCreated" ->
            <<Log(<<keccak256("PairCreated(address,address,bytes32)"),
                    left_padding_from(result.token0),
                    left_padding_from(result.token1),
                    result.pair_id>>, <<>>)>>
      [] result.kind = "OrderPlaced" ->
            <<Log(<<keccak256("LimitOrderPlaced(bytes32,address,address,address,bool,uint256,uint256,uint256)"),
                    result.order_id,
                    left_padding_from(result.trader),
                    left_padding_from(result.token_in)>>,
                  abi_encode(<<result.amount>>))>>
      [] result.kind = "OrderCancelled" ->
            <<Log(<<keccak256("OrderCancelled(bytes32,address)"), result.order_id>>, <<>>)>>
      [] result.kind = "SwapExecuted" ->
            <<Log(<<keccak256("Swap(address,address,address,uint256,uint256,bytes32[])"),
                    left_padding_from(result.trader),
                    left_padding_from(result.token_in),
                    left_padding_from(result.token_out)>>,
                  abi_encode(<<result.amount_in, result.amount_out>>))>>
      [] result.kind = "Quote" -> <<>>

\* Faulty variant of the receipt: the logs are left out.
create_dex_receipt_no_logs(cumulative_gas_used, gas_used, logs, result) ==
    [status |-> TRUE, cumulative_gas_used |-> cumulative_gas_used, logs |-> <<>>]

\* create_dex_receipt
create_dex_receipt(cumulative_gas_used, gas_used, logs, result) ==
    [status |-> TRUE, cumulative_gas_used |-> cumulative_gas_used, logs |-> logs]

\* Faulty variant of the failed receipt: the total before the charge.
create_failed_dex_receipt_stale(cumulative_gas_used, gas_used) ==
    [status |-> FALSE, cumulative_gas_used |-> cumulative_gas_used, logs |-> <<>>]

\* create_failed_dex_receipt
create_failed_dex_receipt(cumulative_gas_used, gas_used) ==
    [status |-> FALSE, cumulative_gas_used |-> cumulative_gas_used + gas_used, logs |-> <<>>]

\* ExecutionInfo at the start of a block build.
ExecutionInfo_new ==
    [cumulative_gas_used |-> 0, receipts |-> <<>>,
     executed_senders |-> <<>>, executed_transactions |-> <<>>]

\* Faulty variant of the Err arm: the error is propagated and nothing is recorded.
dex_failed_propagates(h, tx, sender, i) ==
    [info |-> i, pm |-> h.pm, ret |-> "Err", res |-> h.res, lock |-> h.lock]

\* Faulty variant of the Err arm: the sender is not recorded.
dex_failed_no_sender(h, tx, sender, i) ==
    [info |-> [cumulative_gas_used |-> i.cumulative_gas_used + 21000,
               receipts |-> Append(i.receipts,
                                   create_failed_dex_receipt(i.cumulative_gas_used, 21000)),
               executed_senders |-> i.executed_senders,
               executed_transactions |-> Append(i.executed_transactions, tx)],
     pm |-> h.pm, ret |-> "Ok", res |-> h.res, lock |-> h.lock]

\* The Err arm of execute_dex_transaction: a failed receipt, the base gas,
\* the sender and the transaction recorded, and Ok returned.
dex_failed(h, tx, sender, i) ==
    [info |-> [cumulative_gas_used |-> i.cumulative_gas_used + 21000,
               receipts |-> Append(i.receipts,
                                   create_failed_dex_receipt(i.cumulative_gas_used, 21000)),
               executed_senders |-> Append(i.executed_senders, sender),
               executed_transactions |-> Append(i.executed_transactions, tx)],
     pm |-> h.pm, ret |-> "Ok", res |-> h.res, lock |-> h.lock]

\* Faulty variant of the Ok arm: the total is assigned instead of increased.
dex_succeeded_assigns(h, tx, sender, i) ==
    LET gas_used == estimate_dex_gas(h.res)
        logs == create_dex_logs(h.res)
        receipt == create_dex_receipt(gas_used, gas_used, logs, h.res)
    IN  [info |-> [cumulative_gas_used |-> gas_used,
                   receipts |-> Append(i.receipts, receipt),
                   executed_senders |-> Append(i.executed_senders, sender),
                   executed_transactions |-> Append(i.executed_transactions, tx)],
         pm |-> h.pm, ret |-> "Ok", res |-> h.res, lock |-> h.lock]

\* The rest of execute_dex_transaction after an Ok result.
dex_succeeded(h, tx, sender, i) ==
    LET gas_used == estimate_dex_gas(h.res)
        cumulative == i.cumulative_gas_used + gas_used
        logs == create_dex_logs(h.res)
        receipt == create_dex_receipt(cumulative, gas_used, logs, h.res)
    IN  [info |-> [cumulative_gas_used |-> cumulative,
                   receipts |-> Append(i.receipts, receipt),
                   executed_senders |-> Append(i.executed_senders, sender),
                   executed_transactions |-> Append(i.executed_transactions, tx)],
         pm |-> h.pm, ret |-> "Ok", res |-> h.res, lock |-> h.lock]

\* execute_dex_transaction: the accumulator and the engine after the call,
\* the value returned and the handler's result.  (A block's gas stays far
\* below 2^64, so the u64 additions do not wrap.)
execute_dex_transaction(p, tx, sender, i) ==
    LET Handled(h) == IF ~h.res.ok THEN dex_failed(h, tx, sender, i)
                      ELSE dex_succeeded(h, tx, sender, i)
    IN  With(handle_transaction(p, sender, tx.input, tx.value), Handled)

(***************************************************************************)
(* The transactions offered to the builder                                 *)
(***************************************************************************)
ETH == Addr(0)
USDC == Addr(1)
DAI == Addr(2)
Alice == Addr(66)
Bob == Addr(153)

\* The calldata encoders of tests/dex.rs.
encode_create_pair(token0, token1) ==
    CREATE_PAIR \o abi_encode(<<AbiAddress(token0), AbiAddress(token1)>>)
encode_place_limit_order(token_in, token_out, is_buy, amount, price_num, price_denom) ==
    PLACE_LIMIT_ORDER \o abi_encode(<<AbiAddress(token_in), AbiAddress(token_out),
                                      AbiBool(is_buy), amount, price_num, price_denom>>)
encode_cancel_order(order_id) == CANCEL_ORDER \o abi_encode(<<order_id>>)
encode_swap(token_in, token_out, amount_in, min_amount_out) ==
    SWAP \o abi_encode(<<AbiAddress(token_in), AbiAddress(token_out), amount_in, min_amount_out>>)
encode_get_quote(token_in, token_out, amount_in) ==
    GET_QUOTE \o abi_encode(<<AbiAddress(token_in), AbiAddress(token_out), amount_in>>)

DexTx(sender, input) ==
    [sender |-> sender,
     tx |-> [to |-> Some(DEX_PREDEPLOY_ADDRESS), input |-> input, value |-> U256_ZERO]]

Candidates ==
    { DexTx(Alice, encode_create_pair(ETH, USDC)),
      DexTx(Bob, encode_create_pair(USDC, ETH)),
      DexTx(Alice, encode_place_limit_order(ETH, USDC, FALSE, U256From(2), U256From(2), U256From(1))),
      DexTx(Bob, encode_place_limit_order(ETH, USDC, TRUE, U256From(1), U256From(2), U256From(1))),
      DexTx(Alice, encode_place_limit_order(ETH, USDC, FALSE, U256_ZERO, U256_ZERO, U256From(1))),
      DexTx(Alice, encode_place_limit_order(ETH, DAI, FALSE, U256From(1), U256From(1), U256From(1))),
      DexTx(Alice, encode_cancel_order(OrderIdBytes(1))),
      DexTx(Bob, encode_cancel_order(OrderIdBytes(1))),
      DexTx(Alice, encode_cancel_order(OrderIdBytes(7))),
      DexTx(Bob, encode_swap(USDC, ETH, U256From(4), U256_ZERO)),
      DexTx(Bob, encode_swap(USDC, ETH, U256From(2), U256From(3))),
      DexTx(Bob, encode_get_quote(USDC, ETH, U256From(2))),
      DexTx(Alice, <<1, 2, 3, 4>>),
      DexTx(Alice, <<111, 54>>),
      DexTx(Alice, SubSeq(encode_create_pair(ETH, USDC), 1, 40)),
      [sender |-> Alice,
       tx |-> [to |-> Some(USDC), input |-> encode_create_pair(ETH, DAI), value |-> U256_ZERO]],
      [sender |-> Alice,
       tx |-> [to |-> None, input |-> encode_create_pair(ETH, DAI), value |-> U256_ZERO]] }

(***************************************************************************)
(* The block build: a fresh engine and accumulator, then one reserved       *)
(* transaction after the other.  last records the latest call: its inputs, *)
(* the state it started from and what it returned.  In this build the      *)
(* builder is the only thread and each call is one step.                   *)
(***************************************************************************)
\* The threads that share the Arc<RwLock<PoolManager>>: the block builder,
\* a thread with a clone of the handler, and a thread with the lock handle
\* that pool_manager() returns.
Threads == {"builder", "clone", "inspector"}
NoThread == "none"
Idle == [pc |-> "idle"]

\* RwLock::new
RwLock_new == [writer |-> NoThread, readers |-> {}]

Init ==
    /\ pm = PoolManager_new
    /\ info = ExecutionInfo_new
    /\ last = [called |-> FALSE]
    /\ calls = <<>>
    /\ rw = RwLock_new
    /\ threads = [t \in Threads |-> Idle]
    /\ started = 0

ExecuteDexTransaction(sender, tx) ==
    /\ Len(calls) < MaxTxs
    /\ is_dex_transaction(tx)
    /\ \E r \in {execute_dex_transaction(pm, tx, sender, info)} :
           /\ pm' = r.pm
           /\ info' = r.info
           /\ last' = [called |-> TRUE, sender |-> sender, tx |-> tx, pm |-> pm,
                       info |-> info, res |-> r.res, ret |-> r.ret, lock |-> r.lock]
           /\ calls' = Append(calls, [sender |-> sender, tx |-> tx, res |-> r.res])
    /\ UNCHANGED <<rw, threads, started>>

Next == \E c \in Candidates : ExecuteDexTransaction(c.sender, c.tx)

Spec == Init /\ [][Next]_vars

(***************************************************************************)
(* Reading a call back from its calldata                                   *)
(***************************************************************************)
\* The transaction carries the selector and at least n argument words.
IsCall(tx, selector, n) ==
    Len(tx.input) >= 4 + 32 * n /\ SubSeq(tx.input, 1, 4) = selector
ArgWord(tx, i) == Word(SubSeq(tx.input, 5, Len(tx.input)), i)

\* An order of the book p carries the 32-byte identifier id.
Resting(p, id) == \E k \in 1..Len(p.orders) : OrderIdBytes(p.orders[k].id) = id
RestingOrder(p, id) ==
    p.orders[CHOOSE k \in 1..Len(p.orders) : OrderIdBytes(p.orders[k].id) = id]

LastReceipt(i) == i.receipts[Len(i.receipts)]

C2_ListsParallel ==
    /\ Len(info.receipts) = Len(calls)
    /\ Len(info.executed_senders) = Len(calls)
    /\ Len(info.executed_transactions) = Len(calls)
    /\ \A i \in 1..Len(calls) :
        /\ i <= Len(info.executed_senders) => info.executed_senders[i] = calls[i].sender
        /\ i <= Len(info.executed_transactions) => info.executed_transactions[i] = calls[i].tx
        /\ i <= Len(info.receipts) => info.receipts[i].status = calls[i].res.ok

\* Three transactions processed, a failed one between successful ones.
C2_Witness ==
    /\ Len(calls) = 3
    /\ calls[1].res.ok /\ ~calls[2].res.ok /\ calls[3].res.ok
    /\ Len(info.receipts) = 3

\* C3: no call lowers the cumulative gas, and the cumulative gas of the
\* receipts is non-decreasing in list order.
C3_GasNonDecreasing ==
    /\ last.called => info.cumulative_gas_used >= last.info.cumulative_gas_used
    /\ \A i \in 1..Len(info.receipts) : \A j \in 1..Len(info.receipts) :
        i < j => info.receipts[i].cumulative_gas_used <= info.receipts[j].cumulative_gas_used

\* A charged transaction, then a quote (no gas), then a failed one.
C3_Witness ==
    /\ Len(info.receipts) >= 3
    /\ info.receipts[1].status /\ info.receipts[1].cumulative_gas_used > 0
    /\ info.receipts[2].status
    /\ info.receipts[1].cumulative_gas_used = info.receipts[2].cumulative_gas_used
    /\ ~info.receipts[3].status
    /\ info.receipts[2].cumulative_gas_used < info.receipts[3].cumulative_gas_used

\* C4: the receipt just appended carries the accumulator's cumulative gas
\* after the call, on both paths.
C4_ReceiptCarriesRunningTotal ==
    last.called =>
        /\ Len(info.receipts) > 0
        /\ LastReceipt(info).cumulative_gas_used = info.cumulative_gas_used
        /\ LastReceipt(info).status = last.res.ok

\* A failed transaction that follows charged ones.
C4_Witness ==
    /\ last.called /\ ~last.res.ok
    /\ Len(last.info.receipts) >= 2
    /\ last.info.cumulative_gas_used >= 100000
    /\ LastReceipt(info).cumulative_gas_used = last.info.cumulative_gas_used + 21000

\* C5: a successful result is charged by its kind: pair-created 100000,
\* order-placed 150000, order-cancelled 50000, swap-executed 200000, quote 0.
C5_GasByKind ==
    (last.called /\ last.res.ok) =>
        /\ last.res.kind \in {"PairCreated", "OrderPlaced", "OrderCancelled",
                              "SwapExecuted", "Quote"}
        /\ last.res.kind = "PairCreated" =>
              info.cumulative_gas_used = last.info.cumulative_gas_used + 100000
        /\ last.res.kind = "OrderPlaced" =>
              info.cumulative_gas_used = last.info.cumulative_gas_used + 150000
        /\ last.res.kind = "OrderCancelled" =>
              info.cumulative_gas_used = last.info.cumulative_gas_used + 50000
        /\ last.res.kind = "SwapExecuted" =>
              info.cumulative_gas_used = last.info.cumulative_gas_used + 200000
        /\ last.res.kind = "Quote" =>
              info.cumulative_gas_used = last.info.cumulative_gas_used

\* An order placed after a pair was created: 100000 + 150000.
C5_Witness ==
    /\ last.called /\ last.res.ok
    /\ last.res.kind = "OrderPlaced"
    /\ last.info.cumulative_gas_used = 100000
    /\ info.cumulative_gas_used = 250000

(***************************************************************************)
(* cancelOrder                                                             *)
(***************************************************************************)
IsCancelOrder(tx) == IsCall(tx, CANCEL_ORDER, 1)

\* C6: cancelOrder naming an identifier that no resting order has fails with
\* OrderNotFound.
C6_CancelUnknownIsOrderNotFound ==
    (last.called /\ IsCancelOrder(last.tx) /\ ~Resting(last.pm, ArgWord(last.tx, 1))) =>
        (~last.res.ok /\ last.res.err = "OrderNotFound")

\* C7: cancelOrder naming a resting order, sent by another caller than its
\* trader, fails with Unauthorized and leaves the order resting.
C7_CancelByOtherIsUnauthorized ==
    (/\ last.called /\ IsCancelOrder(last.tx)
     /\ Resting(last.pm, ArgWord(last.tx, 1))
     /\ RestingOrder(last.pm, ArgWord(last.tx, 1)).trader # last.sender) =>
        /\ ~last.res.ok /\ last.res.err = "Unauthorized"
        /\ Resting(pm, ArgWord(last.tx, 1))

\* C8: after a cancelOrder that reported OrderCancelled the named order is
\* not resting in the book.
C8_CancelledOrderIsGone ==
    (last.called /\ last.res.ok /\ last.res.kind = "OrderCancelled") =>
        ~Resting(pm, last.res.order_id)

(***************************************************************************)
(* createPair and placeLimitOrder                                          *)
(***************************************************************************)
IsCreatePair(tx) == IsCall(tx, CREATE_PAIR, 2)
CreatePairTokens(tx) == {WordAddress(ArgWord(tx, 1)), WordAddress(ArgWord(tx, 2))}

\* An earlier createPair of the same unordered pair, in either token order.
CreatedBefore(i) ==
    \E j \in 1..(i - 1) :
        /\ IsCreatePair(calls[j].tx)
        /\ CreatePairTokens(calls[j].tx) = CreatePairTokens(calls[i].tx)

\* C9: the first createPair of an unordered pair succeeds; every later one,
\* in either token order, fails with PairAlreadyExists and leaves the
\* registry as it was.
C9_PairCreatedOnce ==
    /\ \A i \in 1..Len(calls) : IsCreatePair(calls[i].tx) =>
          IF CreatedBefore(i)
          THEN ~calls[i].res.ok /\ calls[i].res.err = "PairAlreadyExists"
          ELSE calls[i].res.ok /\ calls[i].res.kind = "PairCreated"
    /\ (last.called /\ IsCreatePair(last.tx) /\ ~last.res.ok) => pm = last.pm
    /\ (last.called /\ IsCreatePair(last.tx) /\ last.res.ok) =>
          /\ CreatePairTokens(last.tx) \notin last.pm.pairs
          /\ pm.pairs = last.pm.pairs \cup {CreatePairTokens(last.tx)}

\* createPair(USDC, ETH) refused after createPair(ETH, USDC) and an order.
C9_Witness ==
    /\ Len(calls) >= 3
    /\ calls[1].tx.input = encode_create_pair(ETH, USDC) /\ calls[1].res.ok
    /\ last.called /\ last.tx.input = encode_create_pair(USDC, ETH)
    /\ ~last.res.ok /\ last.res.err = "PairAlreadyExists"
    /\ pm.orders # <<>>

IsPlaceLimitOrder(tx) == IsCall(tx, PLACE_LIMIT_ORDER, 6)

\* 2^128, the least U256 that does not fit a u128.
U256_2_128 == [i \in 1..32 |-> IF i = 16 THEN 1 ELSE 0]

\* placeLimitOrder calls with amount = 0: a registered and an unregistered
\* pair, both sides, a valid, a zero and an oversized price.
ZeroAmountOrders ==
    { encode_place_limit_order(tokens[1], tokens[2], is_buy, U256_ZERO, price[1], price[2]) :
        tokens \in {<<ETH, USDC>>, <<ETH, DAI>>}, is_buy \in BOOLEAN,
        price \in {<<U256From(2), U256From(1)>>, <<U256_ZERO, U256_ZERO>>,
                   <<U256_2_128, U256From(1)>>} }

\* C10: placeLimitOrder with amount = 0 fails with InvalidAmount, whatever
\* the other arguments and the engine state, and leaves the engine as it was:
\* so did the latest such call, and so would such a call on every engine state
\* (checked on the fresh engine and whenever a call has changed the engine).
C10_ZeroAmountRejected ==
    /\ (last.called /\ IsPlaceLimitOrder(last.tx) /\ ArgWord(last.tx, 4) = U256_ZERO) =>
          /\ ~last.res.ok /\ last.res.err = "InvalidAmount"
          /\ pm = last.pm
    /\ (~last.called \/ pm # last.pm) =>
          \A calldata \in ZeroAmountOrders :
             \E r \in {handle_transaction(pm, Bob, calldata, U256_ZERO)} :
                 /\ ~r.res.ok /\ r.res.err = "InvalidAmount"
                 /\ r.pm = pm

\* A zero amount together with a zero price, sent while an order is resting.
C10_Witness ==
    /\ last.called /\ IsPlaceLimitOrder(last.tx)
    /\ ArgWord(last.tx, 4) = U256_ZERO /\ ArgWord(last.tx, 5) = U256_ZERO
    /\ last.pm.orders # <<>>
    /\ ~last.res.ok /\ last.res.err = "InvalidAmount"

(***************************************************************************)
(* Validation between decoding and the engine.  A second block build is    *)
(* offered the calls with zero and oversized arguments, next to a pair and *)
(* a resting order that a wrongly accepted call would trade against.       *)
(***************************************************************************)
\* 2^128 + x for a byte x: a U256 whose low 128 bits are the number x.
U256_2_128_plus(x) == [i \in 1..32 |-> IF i = 16 THEN 1 ELSE IF i = 32 THEN x ELSE 0]

ValidationCandidates ==
    { DexTx(Alice, encode_create_pair(ETH, USDC)),
      DexTx(Alice, encode_place_limit_order(ETH, USDC, FALSE, U256From(2), U256From(2), U256From(1))),
      DexTx(Bob, encode_place_limit_order(ETH, USDC, TRUE, U256From(1), U256_ZERO, U256From(1))),
      DexTx(Bob, encode_place_limit_order(ETH, USDC, TRUE, U256From(1), U256From(2), U256_ZERO)),
      DexTx(Bob, encode_place_limit_order(ETH, USDC, TRUE, U256_ZERO, U256_ZERO, U256From(1))),
      DexTx(Bob, encode_place_limit_order(ETH, USDC, TRUE, U256From(1), U256_2_128_plus(2), U256From(1))),
      DexTx(Bob, encode_place_limit_order(ETH, USDC, TRUE, U256From(1), U256From(2), U256_2_128_plus(1))),
      DexTx(Bob, encode_place_limit_order(ETH, USDC, TRUE, U256_ZERO, U256_2_128_plus(2), U256From(1))),
      DexTx(Bob, encode_swap(USDC, ETH, U256_ZERO, U256_ZERO)),
      DexTx(Bob, encode_get_quote(USDC, ETH, U256_ZERO)) }

NextValidation == \E c \in ValidationCandidates : ExecuteDexTransaction(c.sender, c.tx)

SpecValidation == Init /\ [][NextValidation]_vars

\* The price of a placeLimitOrder call has a zero component.
ZeroPrice(tx) == ArgWord(tx, 5) = U256_ZERO \/ ArgWord(tx, 6) = U256_ZERO

\* C11 as stated: placeLimitOrder with a zero price numerator or denominator
\* fails with InvalidPrice.
C11_ZeroPriceIsInvalidPrice ==
    (last.called /\ IsPlaceLimitOrder(last.tx) /\ ZeroPrice(last.tx)) =>
        (~last.res.ok /\ last.res.err = "InvalidPrice")

\* C11, amended: placeLimitOrder with a zero price numerator or denominator
\* fails with InvalidPrice when its amount is not zero, and with InvalidAmount
\* when its amount is zero.
C11_ZeroPriceRejected ==
    (last.called /\ IsPlaceLimitOrder(last.tx) /\ ZeroPrice(last.tx)) =>
        /\ ~last.res.ok
        /\ last.res.err = IF ArgWord(last.tx, 4) = U256_ZERO THEN "InvalidAmount"
                          ELSE "InvalidPrice"

\* A zero denominator alone, with a nonzero amount, while an order that the
\* call would cross is resting.
C11_Witness ==
    /\ last.called /\ IsPlaceLimitOrder(last.tx)
    /\ ArgWord(last.tx, 4) # U256_ZERO
    /\ ArgWord(last.tx, 5) # U256_ZERO /\ ArgWord(last.tx, 6) = U256_ZERO
    /\ last.pm.orders # <<>>
    /\ ~last.res.ok /\ last.res.err = "InvalidPrice"

\* A price component of a placeLimitOrder call does not fit 128 bits.
OversizedPrice(tx) ==
    \/ SubSeq(ArgWord(tx, 5), 1, 16) # Zeros(16)
    \/ SubSeq(ArgWord(tx, 6), 1, 16) # Zeros(16)

\* C12 as stated: placeLimitOrder with a price component that does not fit
\* 128 bits fails with InvalidPrice before the engine is invoked.
C12_OversizedPriceIsInvalidPrice ==
    (last.called /\ IsPlaceLimitOrder(last.tx) /\ OversizedPrice(last.tx)) =>
        /\ ~last.res.ok /\ last.res.err = "InvalidPrice"
        /\ last.lock = "none" /\ pm = last.pm

\* C12, amended: placeLimitOrder with a price component that does not fit
\* 128 bits fails before the engine is invoked, with InvalidPrice when its
\* amount is not zero and with InvalidAmount when it is; no order priced at
\* the value modulo 2^128 reaches the engine.
C12_OversizedPriceRejected ==
    (last.called /\ IsPlaceLimitOrder(last.tx) /\ OversizedPrice(last.tx)) =>
        /\ ~last.res.ok
        /\ last.res.err = IF ArgWord(last.tx, 4) = U256_ZERO THEN "InvalidAmount"
                          ELSE "InvalidPrice"
        /\ last.lock = "none" /\ pm = last.pm

\* A buy priced 2^128 + 2 (2 modulo 2^128, which would cross the resting
\* sell at 2) is refused and the sell stays whole.
C12_Witness ==
    /\ last.called /\ IsPlaceLimitOrder(last.tx)
    /\ ArgWord(last.tx, 4) # U256_ZERO
    /\ ArgWord(last.tx, 5) = U256_2_128_plus(2)
    /\ Len(last.pm.orders) = 1 /\ last.pm.orders[1].side = "Sell"
    /\ ~last.res.ok /\ last.res.err = "InvalidPrice"
    /\ pm.orders = last.pm.orders

IsSwap(tx) == IsCall(tx, SWAP, 4)
IsGetQuote(tx) == IsCall(tx, GET_QUOTE, 3)

\* C13: swap with amountIn = 0 fails with InvalidAmount before the engine is
\* invoked (no access to the engine is taken) and the engine state is the
\* one before the call.
C13_ZeroSwapRejected ==
    (last.called /\ IsSwap(last.tx) /\ ArgWord(last.tx, 3) = U256_ZERO) =>
        /\ ~last.res.ok /\ last.res.err = "InvalidAmount"
        /\ last.lock = "none"
        /\ pm = last.pm

\* A zero swap on the registered pair while an order it could fill is resting.
C13_Witness ==
    /\ last.called /\ IsSwap(last.tx) /\ ArgWord(last.tx, 3) = U256_ZERO
    /\ last.pm.pairs # {} /\ last.pm.orders # <<>>
    /\ ~last.res.ok /\ last.res.err = "InvalidAmount"
    /\ pm = last.pm

\* C14: getQuote with amountIn = 0 fails with InvalidAmount, rejected by the
\* handler itself before the engine is invoked and without taking the
\* engine lock.
C14_ZeroQuoteRejectedByHandler ==
    (last.called /\ IsGetQuote(last.tx) /\ ArgWord(last.tx, 3) = U256_ZERO) =>
        /\ ~last.res.ok /\ last.res.err = "InvalidAmount"
        /\ last.lock = "none"

(***************************************************************************)
(* swap and getQuote.  A third block build is offered the trading calls    *)
(* with their failures (a pair twice, an unregistered pair, slippage, no   *)
(* route) and two selectors that are not dispatched.                       *)
(***************************************************************************)
\* CREATE_PAIR with its last byte changed.
NEAR_CREATE_PAIR == <<111, 54, 198, 41>>

TradingCandidates ==
    { DexTx(Alice, encode_create_pair(ETH, USDC)),
      DexTx(Bob, encode_create_pair(USDC, ETH)),
      DexTx(Alice, encode_place_limit_order(ETH, USDC, FALSE, U256From(2), U256From(2), U256From(1))),
      DexTx(Bob, encode_place_limit_order(ETH, USDC, TRUE, U256From(1), U256From(2), U256From(1))),
      DexTx(Alice, encode_place_limit_order(ETH, DAI, FALSE, U256From(1), U256From(1), U256From(1))),
      DexTx(Alice, encode_cancel_order(OrderIdBytes(7))),
      DexTx(Bob, encode_swap(USDC, ETH, U256From(4), U256_ZERO)),
      DexTx(Bob, encode_swap(USDC, ETH, U256From(2), U256From(3))),
      DexTx(Bob, encode_swap(ETH, DAI, U256From(1), U256_ZERO)),
      DexTx(Bob, encode_get_quote(USDC, ETH, U256From(2))),
      DexTx(Bob, encode_get_quote(ETH, DAI, U256From(1))),
      DexTx(Alice, <<1, 2, 3, 4>>),
      DexTx(Alice, NEAR_CREATE_PAIR \o abi_encode(<<AbiAddress(ETH), AbiAddress(DAI)>>)) }

NextTrading == \E c \in TradingCandidates : ExecuteDexTransaction(c.sender, c.tx)

SpecTrading == Init /\ [][NextTrading]_vars

\* The output a swap call can achieve on the book p: the engine's own
\* estimate for the call's tokens and amount (defined when a route exists).
Achievable(p, tx) ==
    pm_get_quote(p, WordAddress(ArgWord(tx, 1)), WordAddress(ArgWord(tx, 2)), ArgWord(tx, 3))

HasSelector(tx, selector) == Len(tx.input) >= 4 /\ SubSeq(tx.input, 1, 4) = selector

\* getQuote calls: in both directions of the pair and without a route, for
\* the amounts 0, 1 and 4.
Quotes ==
    { encode_get_quote(tokens[1], tokens[2], amount_in) :
        tokens \in {<<USDC, ETH>>, <<ETH, USDC>>, <<ETH, DAI>>},
        amount_in \in {U256_ZERO, U256From(1), U256From(4)} }

\* C16: a getQuote call, successful or failing, leaves the whole engine state
\* as it was and takes at most shared (read) access to the engine, read
\* access when its arguments decode; the same holds of a getQuote made on
\* every engine state (checked on the fresh engine and whenever a call has
\* changed the engine).
C16_QuoteIsReadOnly ==
    /\ (last.called /\ HasSelector(last.tx, GET_QUOTE)) =>
          /\ pm = last.pm
          /\ last.lock \in {"none", "read"}
          /\ IsGetQuote(last.tx) => last.lock = "read"
    /\ (~last.called \/ pm # last.pm) =>
          \A calldata \in Quotes :
             \E r \in {handle_transaction(pm, Bob, calldata, U256_ZERO)} :
                 r.pm = pm /\ r.lock = "read"

\* A successful quote with a positive output over a resting order, and the
\* order is still whole.
C16_Witness ==
    /\ last.called /\ IsGetQuote(last.tx)
    /\ last.res.ok /\ last.res.kind = "Quote"
    /\ BEVal(last.res.amount_out) > 0
    /\ last.pm.orders # <<>>
    /\ pm = last.pm
    /\ last.lock = "read"

(***************************************************************************)
(* Selectors that are not dispatched                                       *)
(***************************************************************************)
DispatchedSelectors == {CREATE_PAIR, PLACE_LIMIT_ORDER, CANCEL_ORDER, SWAP, GET_QUOTE}

\* The value of a lower-case hexadecimal digit.
HexDigitValue(c) == CHOOSE v \in 0..15 : HexDigits[v + 1] = c

\* The message is "unknown function selector: 0x" followed by the two
\* hexadecimal digits of each of the four bytes.
NamesSelector(msg, selector) ==
    /\ Len(msg) = 9
    /\ msg[1] = "unknown function selector: 0x"
    /\ \A k \in 1..4 :
          16 * HexDigitValue(msg[2 * k]) + HexDigitValue(msg[2 * k + 1]) = selector[k]

\* C17: a reserved-address transaction whose first 4 bytes are none of the
\* five dispatched selectors yields the decode error naming those bytes,
\* leaves the engine untouched (no access to it is taken), and is included
\* as a reverted transaction: one failed receipt without logs, exactly 21000
\* gas, sender and transaction recorded.
C17_UnknownSelectorReverts ==
    (/\ last.called /\ Len(last.tx.input) >= 4
     /\ SubSeq(last.tx.input, 1, 4) \notin DispatchedSelectors) =>
        /\ ~last.res.ok /\ last.res.err = "InvalidCalldata"
        /\ NamesSelector(last.res.msg, SubSeq(last.tx.input, 1, 4))
        /\ pm = last.pm /\ last.lock = "none"
        /\ last.ret = "Ok"
        /\ info.receipts = Append(last.info.receipts,
                                  [status |-> FALSE,
                                   cumulative_gas_used |-> last.info.cumulative_gas_used + 21000,
                                   logs |-> <<>>])
        /\ info.cumulative_gas_used = last.info.cumulative_gas_used + 21000
        /\ info.executed_senders = Append(last.info.executed_senders, last.sender)
        /\ info.executed_transactions = Append(last.info.executed_transactions, last.tx)

\* 0x6f36c629 (createPair's selector is 0x6f36c628) with createPair's
\* arguments, after a pair and an order were charged for.
C17_Witness ==
    /\ last.called /\ HasSelector(last.tx, NEAR_CREATE_PAIR)
    /\ last.info.cumulative_gas_used = 250000
    /\ ~last.res.ok
    /\ last.res.msg = <<"unknown function selector: 0x", "6", "f", "3", "6", "c", "6", "2", "9">>
    /\ info.cumulative_gas_used = 271000
    /\ ~LastReceipt(info).status
    /\ pm = last.pm

(***************************************************************************)
(* Atomicity of failed mutating calls                                      *)
(***************************************************************************)
MutatingSelectors == {CREATE_PAIR, PLACE_LIMIT_ORDER, CANCEL_ORDER, SWAP}

\* The errors the engine raises after validation (DexError names).
BusinessErrors ==
    {"PairAlreadyExists", "PairDoesNotExist", "InvalidTokenAddress", "OrderNotFound",
     "SlippageExceeded", "InsufficientBalance", "NoRouteFound"}

\* The i-th call was a mutating call that failed with the business error e.
FailedWith(i, selector, e) ==
    /\ HasSelector(calls[i].tx, selector)
    /\ ~calls[i].res.ok /\ calls[i].res.err = e

\* C18: after a createPair, placeLimitOrder, cancelOrder or swap that failed
\* with a business error the engine state (registry, book, next identifier)
\* equals the state before the call.
C18_FailedCallIsAtomic ==
    (/\ last.called /\ Len(last.tx.input) >= 4
     /\ SubSeq(last.tx.input, 1, 4) \in MutatingSelectors
     /\ ~last.res.ok /\ last.res.err \in BusinessErrors) =>
        pm = last.pm

\* A swap refused for slippage on a book with a resting order, in a block
\* where a createPair or a placeLimitOrder failed with a business error too.
C18_Witness ==
    /\ last.called /\ IsSwap(last.tx)
    /\ ~last.res.ok /\ last.res.err = "SlippageExceeded"
    /\ last.lock = "write"
    /\ last.pm.orders # <<>>
    /\ \E i \in 1..Len(calls) :
          \/ FailedWith(i, CREATE_PAIR, "PairAlreadyExists")
          \/ FailedWith(i, PLACE_LIMIT_ORDER, "PairDoesNotExist")
    /\ pm = last.pm

(***************************************************************************)
(* The handler shared between threads.  A call of handle_transaction is    *)
(* taken apart into its steps: decoding and validation (no shared state),  *)
(* pool_manager.write() / .read() (blocks until the lock is granted), the  *)
(* operation's body up to the return (the guard is dropped there), and,    *)
(* in the builder, the encoding of the outcome and its inclusion.          *)
(* The lock is parking_lot's RwLock: a writer needs the lock free of       *)
(* writer and readers; a reader needs it free of a writer and, by the      *)
(* lock's fair policy, no writer waiting.                                  *)
(***************************************************************************)
\* Number of calls and inspections begun, over all threads.
MaxOps == 3

Handlers == {"builder", "clone"}

ConcurrentCandidates ==
    { DexTx(Alice, encode_create_pair(ETH, USDC)),
      DexTx(Alice, encode_place_limit_order(ETH, USDC, FALSE, U256From(2), U256From(2), U256From(1))),
      DexTx(Alice, encode_cancel_order(OrderIdBytes(1))),
      DexTx(Bob, encode_swap(USDC, ETH, U256From(4), U256_ZERO)),
      DexTx(Bob, encode_get_quote(USDC, ETH, U256From(2))),
      DexTx(Alice, <<1, 2, 3, 4>>) }

\* What a call needs of the lock, and its result when it never reaches the
\* lock: both are decided by the calldata alone.
BeforeLock(c) == handle_transaction(PoolManager_new, c.sender, c.tx.input, c.tx.value)

\* DexHandler::new: the handler whose Arc points to the allocation that holds
\* the lock rw and the engine pm.
DexHandler_new == [pool_manager |-> "arc"]

\* Arc::clone: another pointer to the same allocation.
Arc_clone(arc) == arc

\* Faulty variant of Clone for DexHandler: the engine is copied into an
\* allocation of its own.
DexHandler_clone_deep(self) == [pool_manager |-> <<"copy of", self.pool_manager>>]

\* impl Clone for DexHandler
DexHandler_clone(self) == [pool_manager |-> Arc_clone(self.pool_manager)]

\* DexHandler::pool_manager
pool_manager(self) == Arc_clone(self.pool_manager)

\* The Arc each thread works through: the builder has the handler, the clone
\* thread a clone of it, the inspector what pool_manager() returned.
ArcOf(t) ==
    CASE t = "builder" -> DexHandler_new.pool_manager
      [] t = "clone" -> DexHandler_clone(DexHandler_new).pool_manager
      [] t = "inspector" -> pool_manager(DexHandler_new)

\* The thread's Arc points to the allocation of rw and pm.
Shares(t) == ArcOf(t) = DexHandler_new.pool_manager

WriterWaiting ==
    \E u \in Threads : threads[u].pc = "waiting" /\ threads[u].want = "write"

\* RwLock::write and RwLock::read are granted.
CanWrite == rw.writer = NoThread /\ rw.readers = {}
CanRead == rw.writer = NoThread /\ ~WriterWaiting

\* Dropping the guard of thread t.
Unlocked(t) ==
    [writer |-> IF rw.writer = t THEN NoThread ELSE rw.writer, readers |-> rw.readers \ {t}]

\* handle_transaction is entered (by the builder through
\* execute_dex_transaction, for a transaction to the reserved address).
Begin(t, sender, tx) ==
    /\ t \in Handlers /\ threads[t].pc = "idle"
    /\ started < MaxOps
    /\ t = "builder" => is_dex_transaction(tx)
    /\ threads' = [threads EXCEPT ![t] = [pc |-> "decoding", sender |-> sender, tx |-> tx]]
    /\ started' = started + 1
    /\ UNCHANGED <<pm, info, last, calls, rw>>

\* Selector, decoding and validation: the call is rejected, or goes on to
\* take the lock, or (cancelOrder) goes on without one.
Decode(t) ==
    /\ t \in Handlers /\ threads[t].pc = "decoding"
    /\ \E h \in {BeforeLock(threads[t])} :
          threads' = [threads EXCEPT ![t] =
              IF h.lock # "none"
              THEN [pc |-> "waiting", sender |-> @.sender, tx |-> @.tx, want |-> h.lock]
              ELSE IF h.res.ok
              THEN [pc |-> "executing", sender |-> @.sender, tx |-> @.tx, want |-> "none"]
              ELSE IF t = "builder"
              THEN [pc |-> "rejected", sender |-> @.sender, tx |-> @.tx,
                    h |-> h, pre |-> pm]
              ELSE Idle]
    /\ UNCHANGED <<pm, info, last, calls, rw, started>>

\* The lock is granted to a waiting thread.
Acquire(t) ==
    /\ threads[t].pc = "waiting"
    /\ IF ~Shares(t) THEN rw' = rw
       ELSE IF threads[t].want = "write"
       THEN CanWrite /\ rw' = [rw EXCEPT !.writer = t]
       ELSE CanRead /\ rw' = [rw EXCEPT !.readers = @ \cup {t}]
    /\ threads' = [threads EXCEPT ![t].pc = IF t = "inspector" THEN "holding"
                                             ELSE "executing"]
    /\ UNCHANGED <<pm, info, last, calls, started>>

\* Faulty variant of the return: the guard is dropped on the success path only.
Return_keeps_guard_on_error(t) ==
    /\ t \in Handlers /\ threads[t].pc = "executing"
    /\ \E h \in {handle_transaction(pm, threads[t].sender, threads[t].tx.input,
                                     threads[t].tx.value)} :
          /\ pm' = h.pm
          /\ threads' = [threads EXCEPT ![t] =
                 IF t = "builder"
                 THEN [pc |-> "returned", sender |-> @.sender, tx |-> @.tx,
                       h |-> h, pre |-> pm]
                 ELSE Idle]
          /\ rw' = IF h.res.ok THEN Unlocked(t) ELSE rw
    /\ UNCHANGED <<info, last, calls, started>>

\* The operation's body and the return of handle_transaction, where the
\* guard (if one was taken) is dropped.
Return(t) ==
    /\ t \in Handlers /\ threads[t].pc = "executing"
    /\ \E h \in {handle_transaction(pm, threads[t].sender, threads[t].tx.input,
                                     threads[t].tx.value)} :
          /\ pm' = IF Shares(t) THEN h.pm ELSE pm
          /\ threads' = [threads EXCEPT ![t] =
                 IF t = "builder"
                 THEN [pc |-> "returned", sender |-> @.sender, tx |-> @.tx,
                       h |-> h, pre |-> pm]
                 ELSE Idle]
    /\ rw' = Unlocked(t)
    /\ UNCHANGED <<info, last, calls, started>>

\* execute_dex_transaction after handle_transaction: gas, logs and receipt.
Encode(t) ==
    /\ t = "builder" /\ threads[t].pc \in {"returned", "rejected"}
    /\ \E r \in {IF threads[t].h.res.ok
                  THEN dex_succeeded(threads[t].h, threads[t].tx, threads[t].sender, info)
                  ELSE dex_failed(threads[t].h, threads[t].tx, threads[t].sender, info)} :
          threads' = [threads EXCEPT ![t] =
              [pc |-> "encoded", sender |-> @.sender, tx |-> @.tx, pre |-> @.pre, out |-> r]]
    /\ UNCHANGED <<pm, info, last, calls, rw, started>>

\* Faulty variant of the last step: a failed call is not recorded but decoded
\* and tried again.
Include_retries_failed(t) ==
    /\ t = "builder" /\ threads[t].pc = "encoded"
    /\ IF threads[t].out.res.ok
       THEN /\ info' = threads[t].out.info
            /\ last' = [called |-> TRUE, sender |-> threads[t].sender, tx |-> threads[t].tx,
                        pm |-> threads[t].pre, info |-> info, res |-> threads[t].out.res,
                        ret |-> threads[t].out.ret, lock |-> threads[t].out.lock]
            /\ calls' = Append(calls, [sender |-> threads[t].sender, tx |-> threads[t].tx,
                                       res |-> threads[t].out.res])
            /\ threads' = [threads EXCEPT ![t] = Idle]
       ELSE /\ threads' = [threads EXCEPT ![t] =
                               [pc |-> "decoding", sender |-> @.sender, tx |-> @.tx]]
            /\ UNCHANGED <<info, last, calls>>
    /\ UNCHANGED <<pm, rw, started>>

\* The receipt, the sender and the transaction are pushed; Ok(()) is returned.
Include(t) ==
    /\ t = "builder" /\ threads[t].pc = "encoded"
    /\ info' = threads[t].out.info
    /\ last' = [called |-> TRUE, sender |-> threads[t].sender, tx |-> threads[t].tx,
                pm |-> threads[t].pre, info |-> info, res |-> threads[t].out.res,
                ret |-> threads[t].out.ret, lock |-> threads[t].out.lock]
    /\ calls' = Append(calls, [sender |-> threads[t].sender, tx |-> threads[t].tx,
                               res |-> threads[t].out.res])
    /\ threads' = [threads EXCEPT ![t] = Idle]
    /\ UNCHANGED <<pm, rw, started>>

\* The holder of pool_manager()'s handle asks for a guard of its own ...
Inspect(want) ==
    /\ threads["inspector"].pc = "idle"
    /\ started < MaxOps
    /\ threads' = [threads EXCEPT !["inspector"] = [pc |-> "waiting", want |-> want]]
    /\ started' = started + 1
    /\ UNCHANGED <<pm, info, last, calls, rw>>

\* ... and drops it, when it does.
Drop ==
    /\ threads["inspector"].pc = "holding"
    /\ rw' = Unlocked("inspector")
    /\ threads' = [threads EXCEPT !["inspector"] = Idle]
    /\ UNCHANGED <<pm, info, last, calls, started>>

NextConcurrent ==
    \/ \E t \in Handlers : \E c \in ConcurrentCandidates : Begin(t, c.sender, c.tx)
    \/ \E t \in Handlers : Decode(t)
    \/ \E t \in Threads : Acquire(t)
    \/ \E t \in Handlers : Return(t)
    \/ Encode("builder")
    \/ Include("builder")
    \/ \E want \in {"read", "write"} : Inspect(want)
    \/ Drop

SpecConcurrent == Init /\ [][NextConcurrent]_vars

\* A fair run of the shared handler: a step of a call that can be taken is
\* taken (the threads are scheduled), and a thread that waits for the lock
\* gets it if the lock is free again and again (the lock's fair policy).
\* Nothing makes the holder of pool_manager()'s handle drop its guard.
HandlerFairness ==
    \A t \in Handlers :
        /\ WF_vars(Decode(t))
        /\ SF_vars(Acquire(t))
        /\ WF_vars(Return(t))
        /\ WF_vars(Encode(t))
        /\ WF_vars(Include(t))

SpecConcurrentFair == Init /\ [][NextConcurrent]_vars /\ HandlerFairness

\* Thread u holds a guard: it is inside the engine.
InsideEngine(u) == rw.writer = u \/ u \in rw.readers

\* Thread t is in the body of a mutating call (createPair, placeLimitOrder,
\* cancelOrder or swap), past its decoding and validation.
InMutatingCall(t) ==
    /\ threads[t].pc = "executing"
    /\ \E selector \in MutatingSelectors : HasSelector(threads[t].tx, selector)

\* C19: a thread in the body of a mutating call (createPair, placeLimitOrder,
\* cancelOrder, swap) holds the lock as its writer, and no other thread,
\* writer or reader, is inside the engine meanwhile.
C19_MutatingCallsAreExclusive ==
    \A t \in Handlers : InMutatingCall(t) =>
        /\ rw.writer = t
        /\ \A u \in Threads \ {t} : ~InsideEngine(u)

NearReserved(i, b) == [DEX_PREDEPLOY_ADDRESS EXCEPT ![i] = b]

OfferedTx(sender, to, input) ==
    [sender |-> sender, tx |-> [to |-> to, input |-> input, value |-> U256_ZERO]]

InterceptCandidates ==
    { DexTx(Alice, encode_create_pair(ETH, USDC)),
      DexTx(Alice, encode_place_limit_order(ETH, USDC, FALSE, U256From(2), U256From(2), U256From(1))),
      DexTx(Bob, encode_swap(USDC, ETH, U256From(4), U256_ZERO)),
      OfferedTx(Alice, None, encode_create_pair(ETH, USDC)),
      OfferedTx(Alice, Some(USDC), encode_create_pair(ETH, USDC)),
      OfferedTx(Alice, Some(Addr(66)), encode_create_pair(ETH, USDC)),
      OfferedTx(Alice, Some(NearReserved(20, 0)), encode_create_pair(ETH, USDC)),
      OfferedTx(Alice, Some(NearReserved(20, 67)), encode_create_pair(ETH, USDC)),
      OfferedTx(Alice, Some(NearReserved(1, 67)), encode_create_pair(ETH, USDC)),
      OfferedTx(Bob, Some(NearReserved(10, 1)), encode_swap(USDC, ETH, U256From(4), U256_ZERO)) }

\* is_dex_transaction answered false: the transaction is left to the
\* ordinary execution path, which is outside this module.  last keeps the
\* transaction and the state the predicate was asked in.
NotDexTransaction(sender, tx) ==
    /\ Len(calls) < MaxTxs
    /\ ~is_dex_transaction(tx)
    /\ last' = [called |-> FALSE, sender |-> sender, tx |-> tx, pm |-> pm, info |-> info]
    /\ UNCHANGED <<pm, info, calls, rw, threads, started>>

NextIntercept ==
    \E c \in InterceptCandidates :
        \/ ExecuteDexTransaction(c.sender, c.tx)
        \/ NotDexTransaction(c.sender, c.tx)

SpecIntercept == Init /\ [][NextIntercept]_vars

\* The last transaction offered was not taken as reserved.
PassedOver == ~last.called /\ "tx" \in DOMAIN last

\* 0x4200000000000000000000000000000000000042, byte by byte.
ReservedDestination ==
    Some(<<66, 0, 0, 0, 0, 0, 0, 0, 0, 0, 0, 0, 0, 0, 0, 0, 0, 0, 0, 66>>)

\* C21: a transaction is taken as reserved exactly when it has a destination
\* and the destination is 0x4200000000000000000000000000000000000042; one
\* with no destination (a contract creation) is never reserved; and the
\* question itself changes neither the engine nor the accumulator.
C21_ReservedIffDestinationIsPredeploy ==
    /\ last.called => last.tx.to = ReservedDestination
    /\ PassedOver => /\ last.tx.to # ReservedDestination
                     /\ pm = last.pm
                     /\ info = last.info
    /\ \A c \in InterceptCandidates :
           /\ is_dex_transaction(c.tx) <=> c.tx.to = ReservedDestination
           /\ ~c.tx.to.some => ~is_dex_transaction(c.tx)

\* A contract creation was passed over after a reserved transaction had
\* changed the engine.
C21_Witness ==
    /\ PassedOver
    /\ ~last.tx.to.some
    /\ pm # PoolManager_new
    /\ Len(info.receipts) > 0

(***************************************************************************)
(* Order identifiers.  The handler is built on a fresh engine              *)
(* (DexHandler::new) or on one that has been in service                    *)
(* (DexHandler::from_pool_manager): here one whose pair is registered and  *)
(* whose 254 earlier orders have all been filled, so that the next         *)
(* identifiers cross the one-byte boundary.                                *)
(***************************************************************************)
IssuedBefore == 254

EnginesInService ==
    { PoolManager_new,
      [pairs |-> {PairId(ETH, USDC)}, orders |-> <<>>, next_order_id |-> IssuedBefore + 1] }

InitOrders ==
    /\ pm \in EnginesInService
    /\ info = ExecutionInfo_new
    /\ last = [called |-> FALSE]
    /\ calls = <<>>
    /\ rw = RwLock_new
    /\ threads = [t \in Threads |-> Idle]
    /\ started = 0

OrderCandidates ==
    { DexTx(Alice, encode_create_pair(ETH, USDC)),
      DexTx(Alice, encode_place_limit_order(ETH, USDC, FALSE, U256From(2), U256From(2), U256From(1))),
      DexTx(Bob, encode_place_limit_order(ETH, USDC, TRUE, U256From(1), U256From(2), U256From(1))),
      DexTx(Bob, encode_place_limit_order(ETH, USDC, TRUE, U256From(2), U256From(2), U256From(1))),
      DexTx(Alice, encode_cancel_order(OrderIdBytes(1))) }

NextOrders == \E c \in OrderCandidates : ExecuteDexTransaction(c.sender, c.tx)

SpecOrders == InitOrders /\ [][NextOrders]_vars

\* The i-th call of the build was a successful placeLimitOrder.
Placed(i) == calls[i].res.ok /\ calls[i].res.kind = "OrderPlaced"

\* C22: the identifier a successful placeLimitOrder returns differs, as 32
\* bytes, from the identifier of every order the engine issued before it,
\* whether that order still rests, was filled completely or was named in a
\* cancelOrder.
C22_OrderIdsNeverReused ==
    /\ \A i, j \in 1..Len(calls) :
           (i < j /\ Placed(i) /\ Placed(j)) => calls[i].res.order_id # calls[j].res.order_id
    /\ (last.called /\ last.res.ok /\ last.res.kind = "OrderPlaced") =>
           \A k \in 1..(last.pm.next_order_id - 1) : OrderIdBytes(k) # last.res.order_id

\* Three orders were placed on an engine in service, the identifiers went
\* past 255, and an earlier order has left the book.
C22_Witness ==
    /\ Len(calls) >= 3
    /\ Placed(Len(calls))
    /\ BEVal(calls[Len(calls)].res.order_id) > 256
    /\ \E i \in 1..(Len(calls) - 1) : Placed(i) /\ ~Resting(pm, calls[i].res.order_id)

(***************************************************************************)
(* The complete flow of test_complete_dex_flow and of                      *)
(* dex_create_pair_add_liquidity_and_swap: a pair, sell orders as          *)
(* liquidity, a quote and a swap against them.                             *)
(***************************************************************************)
FlowCandidates ==
    { DexTx(Alice, encode_create_pair(ETH, USDC)),
      DexTx(Alice, encode_create_pair(USDC, ETH)),
      DexTx(Bob, encode_place_limit_order(ETH, USDC, FALSE, U256From(2), U256From(2), U256From(1))),
      DexTx(Bob, encode_place_limit_order(ETH, USDC, FALSE, U256From(1), U256From(3), U256From(1))),
      DexTx(Bob, encode_get_quote(USDC, ETH, U256From(3))),
      DexTx(Bob, encode_get_quote(USDC, ETH, U256From(4))),
      DexTx(Bob, encode_swap(USDC, ETH, U256From(3), U256_ZERO)),
      DexTx(Bob, encode_swap(USDC, ETH, U256From(4), U256_ZERO)) }

NextFlow == \E c \in FlowCandidates : ExecuteDexTransaction(c.sender, c.tx)

SpecFlow == Init /\ [][NextFlow]_vars

\* The first call is createPair(A, B).
FlowCreates == Len(calls) >= 1 /\ IsCreatePair(calls[1].tx)

\* ... and the second a sell order on that pair that passes validation.
FlowSells ==
    /\ FlowCreates
    /\ Len(calls) >= 2
    /\ IsPlaceLimitOrder(calls[2].tx)
    /\ {WordAddress(ArgWord(calls[2].tx, 1)), WordAddress(ArgWord(calls[2].tx, 2))}
           = CreatePairTokens(calls[1].tx)
    /\ ~WordBool(ArgWord(calls[2].tx, 3))
    /\ validate_limit_order(ArgWord(calls[2].tx, 4), ArgWord(calls[2].tx, 5),
                            ArgWord(calls[2].tx, 6)) = "Ok"

\* ... and the third a getQuote in the opposite direction for a positive amount.
FlowQuotes ==
    /\ FlowSells
    /\ Len(calls) >= 3
    /\ IsGetQuote(calls[3].tx)
    /\ ArgWord(calls[3].tx, 1) = ArgWord(calls[2].tx, 2)
    /\ ArgWord(calls[3].tx, 2) = ArgWord(calls[2].tx, 1)
    /\ ArgWord(calls[3].tx, 3) # U256_ZERO

\* ... and the fourth a swap of the quoted amount with minAmountOut = 0.
FlowSwaps ==
    /\ FlowQuotes
    /\ Len(calls) >= 4
    /\ IsSwap(calls[4].tx)
    /\ ArgWord(calls[4].tx, 1) = ArgWord(calls[3].tx, 1)
    /\ ArgWord(calls[4].tx, 2) = ArgWord(calls[3].tx, 2)
    /\ ArgWord(calls[4].tx, 3) = ArgWord(calls[3].tx, 3)
    /\ ArgWord(calls[4].tx, 4) = U256_ZERO

EventSignature(kind) ==
    CASE kind = "PairCreated" -> "PairCreated(address,address,bytes32)"
      [] kind = "OrderPlaced" ->
            "LimitOrderPlaced(bytes32,address,address,address,bool,uint256,uint256,uint256)"
      [] kind = "OrderCancelled" -> "OrderCancelled(bytes32,address)"
      [] kind = "SwapExecuted" -> "Swap(address,address,address,uint256,uint256,bytes32[])"

LastSucceeded == last.called /\ last.res.ok

\* C24: a successful getQuote is still included: the accumulator gains one
\* succeeded receipt with no logs and the cumulative gas is the one before
\* the call.  A successful call of any other kind gains one succeeded
\* receipt with exactly one log, whose first topic is the hash of that
\* kind's event signature.
C24_QuoteSilentOthersOneEvent ==
    LastSucceeded =>
        /\ Len(info.receipts) = Len(last.info.receipts) + 1
        /\ LastReceipt(info).status
        /\ IF last.res.kind = "Quote"
           THEN /\ LastReceipt(info).logs = <<>>
                /\ info.cumulative_gas_used = last.info.cumulative_gas_used
                /\ LastReceipt(info).cumulative_gas_used = last.info.cumulative_gas_used
           ELSE /\ Len(LastReceipt(info).logs) = 1
                /\ LastReceipt(info).logs[1].topics[1]
                       = keccak256(EventSignature(last.res.kind))

\* A quote succeeded after calls that were charged gas and left events.
C24_Witness ==
    /\ LastSucceeded
    /\ last.res.kind = "Quote"
    /\ last.info.cumulative_gas_used > 0
    /\ \E k \in 1..Len(last.info.receipts) : Len(last.info.receipts[k].logs) = 1

(***************************************************************************)
(* The fields of each event                                                *)
(***************************************************************************)
LastLog == LastReceipt(info).logs[1]

\* LimitOrderPlaced(orderId, trader, tokenIn, tokenOut, isBuy, amount,
\* priceNum, priceDenom): the first three as topics, the rest in the body.
PlacedLogComplete ==
    /\ LastLog.topics = <<keccak256(EventSignature("OrderPlaced")), last.res.order_id,
                          left_padding_from(last.sender), ArgWord(last.tx, 1)>>
    /\ LastLog.data = abi_encode(<<ArgWord(last.tx, 2), ArgWord(last.tx, 3), ArgWord(last.tx, 4),
                                   ArgWord(last.tx, 5), ArgWord(last.tx, 6)>>)

\* Swap(trader, tokenIn, tokenOut, amountIn, amountOut, route): the first
\* three as topics; the body holds the two amounts and, for the route, at
\* least the offset and the length of a bytes32[].
SwapLogComplete ==
    /\ LastLog.topics = <<keccak256(EventSignature("SwapExecuted")),
                          left_padding_from(last.sender), ArgWord(last.tx, 1), ArgWord(last.tx, 2)>>
    /\ Len(LastLog.data) >= 4 * 32
    /\ Word(LastLog.data, 1) = ArgWord(last.tx, 3)
    /\ Word(LastLog.data, 2) = last.res.amount_out

\* OrderCancelled(orderId, canceller): both fields, as topics or in the body.
CancelLogComplete ==
    /\ \E k \in 2..Len(LastLog.topics) : LastLog.topics[k] = ArgWord(last.tx, 1)
    /\ \/ \E k \in 2..Len(LastLog.topics) : LastLog.topics[k] = left_padding_from(last.sender)
       \/ LastLog.data = abi_encode(<<AbiAddress(last.sender)>>)

\* C25: the log of a successful call carries every field of its event's
\* signature: LimitOrderPlaced the order id, trader and tokenIn as topics and
\* tokenOut, isBuy, amount and both price components in the body; Swap the
\* trader, tokenIn and tokenOut as topics and amountIn, amountOut and the
\* route in the body; OrderCancelled the order id and the cancelling address.
C25_LogsCarryEveryField ==
    LastSucceeded =>
        /\ last.res.kind = "OrderPlaced" => PlacedLogComplete
        /\ last.res.kind = "SwapExecuted" => SwapLogComplete
        /\ last.res.kind = "OrderCancelled" => CancelLogComplete

(***************************************************************************)
(* Calls that are turned down before the engine                            *)
(***************************************************************************)
RejectCandidates ==
    { DexTx(Alice, encode_create_pair(ETH, USDC)),
      DexTx(Alice, encode_place_limit_order(ETH, USDC, FALSE, U256From(2), U256From(2), U256From(1))),
      DexTx(Alice, <<111, 54>>),
      DexTx(Alice, <<1, 2, 3, 4>>),
      DexTx(Alice, SubSeq(encode_create_pair(ETH, USDC), 1, 40)),
      DexTx(Bob, SubSeq(encode_place_limit_order(ETH, USDC, TRUE, U256From(1), U256From(2),
                                                 U256From(1)), 1, 4 + 32 * 5)),
      DexTx(Bob, encode_place_limit_order(ETH, USDC, TRUE, U256_ZERO, U256From(2), U256From(1))),
      DexTx(Bob, encode_place_limit_order(ETH, USDC, TRUE, U256From(1), U256From(2), U256_ZERO)),
      DexTx(Bob, encode_place_limit_order(ETH, USDC, TRUE, U256From(1), U256_2_128_plus(2), U256From(1))),
      DexTx(Bob, encode_swap(USDC, ETH, U256_ZERO, U256_ZERO)),
      DexTx(Bob, encode_swap(DAI, ETH, U256From(1), U256_ZERO)) }

NextRejects == \E c \in RejectCandidates : ExecuteDexTransaction(c.sender, c.tx)

SpecRejects == Init /\ [][NextRejects]_vars

\* The number of 32-byte argument words each dispatched selector decodes.
Arity(selector) ==
    CASE selector = CREATE_PAIR -> 2
      [] selector = PLACE_LIMIT_ORDER -> 6
      [] selector = CANCEL_ORDER -> 1
      [] selector = SWAP -> 4
      [] selector = GET_QUOTE -> 3

\* The payload has no selector, an unknown one, or too few bytes for the
\* argument tuple of its selector.
DecodeFails(tx) ==
    \/ Len(tx.input) < 4
    \/ SubSeq(tx.input, 1, 4) \notin DispatchedSelectors
    \/ Len(tx.input) < 4 + 32 * Arity(SubSeq(tx.input, 1, 4))

\* The arguments decode, and a check between decoding and the engine call
\* turns them down: a zero amount, a zero or an oversized price component.
ValidationFails(tx) ==
    \/ IsPlaceLimitOrder(tx) /\ (ArgWord(tx, 4) = U256_ZERO \/ ZeroPrice(tx) \/ OversizedPrice(tx))
    \/ IsSwap(tx) /\ ArgWord(tx, 3) = U256_ZERO

\* C26: a decode error (payload shorter than 4 bytes, unknown selector,
\* malformed argument tuple) and a validation error (zero amount, zero price
\* component, price overflow) are raised before any engine call: the call
\* fails with InvalidCalldata, or InvalidAmount or InvalidPrice, takes no
\* access to the engine and leaves the engine as it was; and no call that
\* fails with one of these errors has taken the lock.
C26_RejectedBeforeEngine ==
    last.called =>
        /\ DecodeFails(last.tx) =>
              /\ ~last.res.ok /\ last.res.err = "InvalidCalldata"
              /\ last.lock = "none" /\ pm = last.pm
        /\ (~DecodeFails(last.tx) /\ ValidationFails(last.tx)) =>
              /\ ~last.res.ok /\ last.res.err \in {"InvalidAmount", "InvalidPrice"}
              /\ last.lock = "none" /\ pm = last.pm
        /\ (~last.res.ok /\ last.res.err \in {"InvalidCalldata", "InvalidAmount", "InvalidPrice"}) =>
              /\ last.lock = "none" /\ pm = last.pm

\* A createPair whose tuple is cut short arrives at an engine that holds a
\* pair and an order, after a call that failed inside the engine.
C26_Witness ==
    /\ last.called
    /\ HasSelector(last.tx, CREATE_PAIR) /\ DecodeFails(last.tx)
    /\ last.pm.orders # <<>>
    /\ \E k \in 1..Len(calls) : ~calls[k].res.ok /\ calls[k].res.err = "NoRouteFound"

(***************************************************************************)
(* The states a transaction passes through                                 *)
(***************************************************************************)
\* Idle -> Decoding -> (Executing | Rejected) -> Encoded -> Included, with
\* the states of the code in between: waiting for the lock belongs to
\* Executing until handle_transaction has returned, and Included is the
\* builder back at idle with the outcome appended.
Progress ==
    { <<"idle", "decoding">>,
      <<"decoding", "waiting">>, <<"decoding", "executing">>, <<"decoding", "rejected">>,
      <<"waiting", "executing">>, <<"executing", "returned">>,
      <<"returned", "encoded">>, <<"rejected", "encoded">>,
      <<"encoded", "idle">> }

BuilderStep ==
    LET from == threads["builder"].pc
        to == threads'["builder"].pc
    IN  /\ from # to => <<from, to>> \in Progress
        /\ from = to => threads'["builder"] = threads["builder"]
        /\ (pm' # pm /\ threads'["clone"] = threads["clone"]) =>
               (from = "executing" /\ to = "returned")
        /\ (from = "encoded" /\ to = "idle") =>
               /\ Len(info'.receipts) = Len(info.receipts) + 1
               /\ Len(info'.executed_senders) = Len(info.executed_senders) + 1
               /\ Len(info'.executed_transactions) = Len(info.executed_transactions) + 1
        /\ info' # info => (from = "encoded" /\ to = "idle")

\* C27: a transaction passes Idle, Decoding, then Executing or Rejected, then
\* Encoded, then Included, in this order and each once: every step of the
\* builder moves forward along this order, so no state is entered again; the
\* builder touches the engine only in the step that ends Executing; and the
\* accumulator changes only in the step to Included, after the engine call
\* has returned, by exactly one receipt, one sender and one transaction.
C27_StatesInOrderOnce == [][BuilderStep]_vars

\* A successful call stands encoded, after a rejected one was included.
C27_Witness ==
    /\ threads["builder"].pc = "encoded"
    /\ threads["builder"].out.res.ok
    /\ threads["builder"].pre # pm
    /\ \E k \in 1..Len(calls) : ~calls[k].res.ok /\ calls[k].res.err = "InvalidCalldata"

(***************************************************************************)
(* Orders and the registration of their pair                               *)
(***************************************************************************)
PairCandidates ==
    { DexTx(Alice, encode_create_pair(ETH, USDC)),
      DexTx(Alice, encode_create_pair(DAI, ETH)),
      DexTx(Bob, encode_place_limit_order(ETH, USDC, FALSE, U256From(2), U256From(2), U256From(1))),
      DexTx(Bob, encode_place_limit_order(USDC, ETH, TRUE, U256From(1), U256From(1), U256From(2))),
      DexTx(Bob, encode_place_limit_order(ETH, DAI, FALSE, U256From(1), U256From(1), U256From(1))),
      DexTx(Bob, encode_place_limit_order(USDC, DAI, FALSE, U256From(1), U256From(1), U256From(1))),
      DexTx(Bob, encode_place_limit_order(ETH, USDC, FALSE, U256_ZERO, U256From(2), U256From(1))),
      DexTx(Bob, encode_place_limit_order(USDC, DAI, TRUE, U256From(1), U256From(2), U256_ZERO)) }

NextPairs == \E c \in PairCandidates : ExecuteDexTransaction(c.sender, c.tx)

SpecPairs == Init /\ [][NextPairs]_vars

\* The tokens of the latest call, a placeLimitOrder, in either order.
PlaceTokens(tx) == {WordAddress(ArgWord(tx, 1)), WordAddress(ArgWord(tx, 2))}

\* An earlier call of the build was a successful createPair of these tokens.
RegisteredEarlier(tokens) ==
    \E j \in 1..(Len(calls) - 1) :
        /\ IsCreatePair(calls[j].tx)
        /\ calls[j].res.ok
        /\ CreatePairTokens(calls[j].tx) = tokens

LastIsPlace == last.called /\ IsPlaceLimitOrder(last.tx)

NoPairError == ~last.res.ok /\ last.res.err \in {"PairDoesNotExist", "InvalidTokenAddress"}

\* C28 as stated: a placeLimitOrder whose pair no earlier successful
\* createPair (in either token order) has registered fails with
\* PairDoesNotExist or InvalidTokenAddress, issues no order identifier and
\* leaves the engine as it was; a placeLimitOrder succeeds only after a
\* createPair for its pair has succeeded.
C28_UnregisteredPairIsPairError ==
    LastIsPlace =>
        /\ ~RegisteredEarlier(PlaceTokens(last.tx)) => (NoPairError /\ pm = last.pm)
        /\ last.res.ok => RegisteredEarlier(PlaceTokens(last.tx))

\* C28, amended: the placeLimitOrder that passes validation (nonzero amount,
\* nonzero price components that fit 128 bits) fails so; one that does not
\* fails with its validation error; in both cases no identifier is issued
\* and the engine is as it was.
C28_UnregisteredPairRejected ==
    LastIsPlace =>
        /\ ~RegisteredEarlier(PlaceTokens(last.tx)) =>
              /\ ~last.res.ok
              /\ pm = last.pm
              /\ IF ArgWord(last.tx, 4) = U256_ZERO THEN last.res.err = "InvalidAmount"
                 ELSE IF ZeroPrice(last.tx) \/ OversizedPrice(last.tx)
                 THEN last.res.err = "InvalidPrice"
                 ELSE NoPairError
        /\ last.res.ok => RegisteredEarlier(PlaceTokens(last.tx))

\* A well-formed order for a pair that was never registered arrives while
\* another pair is registered and holds an order.
C28_Witness ==
    /\ LastIsPlace
    /\ validate_limit_order(ArgWord(last.tx, 4), ArgWord(last.tx, 5), ArgWord(last.tx, 6)) = "Ok"
    /\ ~RegisteredEarlier(PlaceTokens(last.tx))
    /\ last.pm.pairs # {} /\ last.pm.orders # <<>>
    /\ NoPairError

(***************************************************************************)
(* The guard of one call                                                   *)
(***************************************************************************)
\* Thread t is inside handle_transaction, between taking its guard (if it
\* takes one) and returning.
InBody(t) == threads[t].pc = "executing"

LockStep ==
    \A t \in Handlers :
        \* the guard is taken in one place, after decoding and validation
        /\ (~InsideEngine(t) /\ InsideEngine(t)') =>
               (threads[t].pc = "waiting" /\ threads'[t].pc = "executing")
        \* and is given back by the step in which handle_transaction returns
        /\ (InsideEngine(t) /\ threads'[t].pc # threads[t].pc) => ~InsideEngine(t)'
        \* so it is held only inside the body: not while the accumulator is
        \* updated, and not when the next transaction begins
        /\ InsideEngine(t)' => InBody(t)'

\* C29: a call of handle_transaction takes the lock at most once and has
\* given it back when it returns, whether it succeeded or failed; so the
\* caller holds no guard while execute_dex_transaction updates the
\* accumulator, and a failed mutating call does not leave the engine locked
\* for the next transaction.
C29_GuardLivesInsideTheCall == [][LockStep]_vars

\* After a swap failed inside the engine under the write guard and was
\* included, the builder's next call holds the write guard.
C29_Witness ==
    /\ last.called /\ ~last.res.ok /\ last.lock = "write"
    /\ InBody("builder")
    /\ rw.writer = "builder"

(***************************************************************************)
(* One engine behind every handle                                          *)
(***************************************************************************)
\* The engine after the call that thread t is in has run on the engine pm.
AfterCall(t) ==
    handle_transaction(pm, threads[t].sender, threads[t].tx.input, threads[t].tx.value).pm

SharingStep ==
    /\ \A t \in Handlers :
          \* what a call through t's handle does to the engine is in pm, the
          \* engine every later call through any handle starts from
          /\ (threads[t].pc = "executing" /\ threads'[t].pc # "executing") =>
                 pm' = AfterCall(t)
          \* and a call that takes a guard takes it on rw
          /\ (threads'[t].pc = "executing" /\ threads'[t].want # "none") => InsideEngine(t)'
    /\ threads'["inspector"].pc = "holding" => InsideEngine("inspector")'
    \* one lock: a writer is alone
    /\ rw'.writer # NoThread => rw'.readers = {}

\* C30: the handler, a clone of it and the Arc that pool_manager() returns
\* point to one allocation: a mutation made through any of them is in the
\* engine that every later operation through any other works on, and every
\* guard, whoever takes it, is a guard of the same single lock.
C30_HandlesShareEngineAndLock == [][SharingStep]_vars

\* The builder's createPair found the pair registered although no call of
\* the builder had created it: the clone had.
C30_Witness ==
    /\ last.called /\ IsCreatePair(last.tx)
    /\ ~last.res.ok /\ last.res.err = "PairAlreadyExists"
    /\ \A k \in 1..Len(calls) : ~calls[k].res.ok

(***************************************************************************)
(* The ETH value of a transaction                                          *)
(***************************************************************************)
\* tx.value(): nothing, one wei, a few wei, and more than 128 bits hold.
Values == {U256_ZERO, U256From(1), U256From(4), U256_2_128}

ValueTx(sender, input, value) ==
    [sender |-> sender,
     tx |-> [to |-> Some(DEX_PREDEPLOY_ADDRESS), input |-> input, value |-> value]]

ValueCandidates ==
    { ValueTx(Alice, encode_create_pair(ETH, USDC), U256_ZERO),
      ValueTx(Alice, encode_create_pair(ETH, USDC), U256From(1)),
      ValueTx(Alice, encode_place_limit_order(ETH, USDC, FALSE, U256From(2), U256From(2),
                                              U256From(1)), U256_ZERO),
      ValueTx(Alice, encode_place_limit_order(ETH, USDC, FALSE, U256From(2), U256From(2),
                                              U256From(1)), U256_2_128),
      ValueTx(Bob, encode_swap(USDC, ETH, U256From(2), U256_ZERO), U256_ZERO),
      ValueTx(Bob, encode_swap(USDC, ETH, U256From(2), U256_ZERO), U256From(4)),
      ValueTx(Bob, encode_get_quote(USDC, ETH, U256From(2)), U256From(1)),
      ValueTx(Alice, <<1, 2, 3, 4>>, U256From(1)) }

NextValue == \E c \in ValueCandidates : ExecuteDexTransaction(c.sender, c.tx)

SpecValue == Init /\ [][NextValue]_vars

\* The latest call, run again from the state it started in with value v,
\* returns the same result, reaches the same engine and takes the same
\* access, and leaves the same gas total and the same receipts (status,
\* running total and logs).
SameWithValue(v) ==
    \E r \in {execute_dex_transaction(last.pm, [last.tx EXCEPT !.value = v],
                                      last.sender, last.info)} :
        /\ r.res = last.res
        /\ r.ret = last.ret
        /\ r.lock = last.lock
        /\ r.pm = pm
        /\ r.info.cumulative_gas_used = info.cumulative_gas_used
        /\ r.info.receipts = info.receipts
        /\ r.info.executed_senders = info.executed_senders

\* C31: the result of handle_transaction and the engine it leaves do not
\* depend on the transaction's ETH value: from the same engine, with the
\* same caller and calldata, every value gives the same result, the same
\* engine, the same gas charged and the same logs.
C31_ValueIsIgnored ==
    last.called => \A v \in Values \ {last.tx.value} : SameWithValue(v)

\* A swap that carried ETH filled a resting order, after calls without ETH.
C31_Witness ==
    /\ last.called /\ IsSwap(last.tx)
    /\ last.tx.value # U256_ZERO
    /\ last.res.ok /\ pm # last.pm
    /\ \E k \in 1..Len(calls) : calls[k].tx.value = U256_ZERO

(***************************************************************************)
(* Selectors that are declared but have no arm in handle_transaction       *)
(***************************************************************************)
\* Calldata for the four view functions, encoded as their signatures say.
encode_get_orderbook_depth(token0, token1, depth) ==
    GET_ORDERBOOK_DEPTH \o abi_encode(<<AbiAddress(token0), AbiAddress(token1), depth>>)
encode_get_pair_stats(token0, token1) ==
    GET_PAIR_STATS \o abi_encode(<<AbiAddress(token0), AbiAddress(token1)>>)
encode_get_user_orders(user) == GET_USER_ORDERS \o abi_encode(<<AbiAddress(user)>>)
encode_get_order(order_id) == GET_ORDER \o abi_encode(<<order_id>>)

DeclaredCandidates ==
    { DexTx(Alice, encode_create_pair(ETH, USDC)),
      DexTx(Alice, encode_place_limit_order(ETH, USDC, FALSE, U256From(2), U256From(2), U256From(1))),
      DexTx(Bob, encode_get_quote(USDC, ETH, U256From(2))),
      DexTx(Bob, encode_get_orderbook_depth(ETH, USDC, U256From(1))),
      DexTx(Bob, encode_get_pair_stats(ETH, USDC)),
      DexTx(Alice, encode_get_user_orders(Alice)),
      DexTx(Alice, encode_get_order(OrderIdBytes(1))) }

NextDeclared == \E c \in DeclaredCandidates : ExecuteDexTransaction(c.sender, c.tx)

SpecDeclared == Init /\ [][NextDeclared]_vars

\* getOrderbookDepth, getPairStats, getUserOrders, getOrder.
DeclaredOnly == {GET_ORDERBOOK_DEPTH, GET_PAIR_STATS, GET_USER_ORDERS, GET_ORDER}

UnknownSelectorError ==
    /\ ~last.res.ok /\ last.res.err = "InvalidCalldata"
    /\ NamesSelector(last.res.msg, SubSeq(last.tx.input, 1, 4))

\* C32: only createPair, placeLimitOrder, cancelOrder, swap and getQuote are
\* dispatched.  A payload that starts with one of the four other declared
\* selectors is an unknown selector: the call fails with InvalidCalldata
\* naming the selector, the engine is not touched, and the transaction is
\* included as reverted: a failed receipt without logs and 21000 gas.  And a
\* call that is not turned down so starts with one of the five.
C32_OnlyFiveSelectorsDispatched ==
    last.called =>
        /\ (\E selector \in DeclaredOnly : HasSelector(last.tx, selector)) =>
              /\ UnknownSelectorError
              /\ pm = last.pm /\ last.lock = "none"
              /\ last.ret = "Ok"
              /\ Len(info.receipts) = Len(last.info.receipts) + 1
              /\ ~LastReceipt(info).status
              /\ LastReceipt(info).logs = <<>>
              /\ LastReceipt(info).cumulative_gas_used = last.info.cumulative_gas_used + 21000
              /\ info.cumulative_gas_used = last.info.cumulative_gas_used + 21000
              /\ info.executed_senders = Append(last.info.executed_senders, last.sender)
              /\ info.executed_transactions = Append(last.info.executed_transactions, last.tx)
        /\ (Len(last.tx.input) >= 4 /\ ~UnknownSelectorError) =>
              SubSeq(last.tx.input, 1, 4) \in DispatchedSelectors

\* getOrder for the identifier of an order that rests in the book.
C32_Witness ==
    /\ last.called /\ HasSelector(last.tx, GET_ORDER)
    /\ Resting(last.pm, ArgWord(last.tx, 1))
    /\ UnknownSelectorError
    /\ last.info.cumulative_gas_used > 0

====
